---- MODULE Spec2Model ----
(***************************************************************************)
(* Model of xbutil's xcldev::device (xbutil.h): the stream-usage report    *)
(* with its ring-buffer pending computation, the constructor and the       *)
(* destructor, program(), boot(), reset(), dmatest(), memread() and        *)
(* memwrite(), do_dd(), the compute-unit control-register layout, the      *)
(* compute-unit telemetry, the memory-usage report and memory telemetry,   *)
(* two dmatest() runs on one device, and the handles of moved objects.     *)
(***************************************************************************)
EXTENDS Integers, Sequences, FiniteSets, TLC

VARIABLES
    ring,   \* stream-usage report: sysfs stat of one stream and the report
    life,   \* device object: m_handle, the device API calls, program()/boot()
    dma,    \* dmatest(): topology, loop position, transfers issued
    ddst,   \* do_dd(): parsed arguments, file, I/O issued
    cu,     \* compute-unit control register: snapshot, decoded status, write
    mem,    \* memread()/memwrite(): the request, warnings, transfer issued
    tel,    \* parseComputeUnits(): the static cuIndex, the records added
    usage,  \* memory-usage report, stream report and getMemTopology()
    race,   \* two runs of dmatest() on one device: positions, bank contents
    own     \* device objects: constructed, moved, destroyed; xclClose calls

vars == <<ring, life, dma, ddst, cu, mem, tel, usage, race, own>>

(***************************************************************************)
(* Bounds of the model.                                                    *)
(***************************************************************************)
MaxIdx == 3          \* descriptor indices 0..MaxIdx (plus the edge values)
MaxRingLog == 3      \* ring sizes 2^0 .. 2^MaxRingLog

(***************************************************************************)
(* int arithmetic of the build: 32-bit two's complement.  An int is held   *)
(* as its value; the operations work on its two 16-bit halves, so that no  *)
(* intermediate result leaves the 32-bit range.                            *)
(***************************************************************************)
IntBits == 32

Pow2(n) == 2 ^ n

Half == Pow2(IntBits \div 2)
INT_MAX == (Pow2(IntBits - 2) - 1) * 2 + 1
INT_MIN == (0 - INT_MAX) - 1

\* the halves of the two's complement pattern of x, each in 0..Half-1
Hi(x) == (x \div Half) % Half
Lo(x) == x % Half

\* the int whose pattern has the halves h and l
FromHalves(h, l) == (IF h >= Half \div 2 THEN h - Half ELSE h) * Half + l

\* a - b on ints; an overflowing subtraction wraps
SubInt(a, b) ==
    LET l == Lo(a) - Lo(b)
        borrow == IF l < 0 THEN 1 ELSE 0
    IN  FromHalves((Hi(a) - Hi(b) - borrow) % Half, l % Half)

\* a + b on ints; an overflowing addition wraps
AddInt(a, b) ==
    LET l == Lo(a) + Lo(b)
    IN  FromHalves((Hi(a) + Hi(b) + (l \div Half)) % Half, l % Half)

\* x * k on ints for a constant 0 <= k < Half / 2; overflow wraps
MulInt(x, k) ==
    LET l == Lo(x) * k
    IN  FromHalves((Hi(x) * k + (l \div Half)) % Half, l % Half)

RECURSIVE AndNat(_, _)
AndNat(x, y) ==
    IF x = 0 \/ y = 0 THEN 0
    ELSE (x % 2) * (y % 2) + 2 * AndNat(x \div 2, y \div 2)

\* operator & on two int operands
BitAnd(x, y) == FromHalves(AndNat(Hi(x), Hi(y)), AndNat(Lo(x), Lo(y)))

(***************************************************************************)
(* std::to_string(int64_t) and std::stoi on decimal text.  Text is a       *)
(* sequence of characters.                                                 *)
(***************************************************************************)
DigitChar == <<"0", "1", "2", "3", "4", "5", "6", "7", "8", "9">>

RECURSIVE NatToString(_)
NatToString(n) ==
    IF n < 10 THEN <<DigitChar[n + 1]>>
    ELSE Append(NatToString(n \div 10), DigitChar[(n % 10) + 1])

\* a negative v is written from its last digit d and the rest (v + d) / 10,
\* which keeps the most negative int in range
to_string(v) ==
    IF v >= 0 THEN NatToString(v)
    ELSE LET d == (10 - (v % 10)) % 10
             q == 0 - ((v + d) \div 10)
         IN  IF q = 0 THEN <<"-", DigitChar[d + 1]>>
             ELSE <<"-">> \o NatToString(q) \o <<DigitChar[d + 1]>>

DigitVal(ch) == CHOOSE d \in 0..9 : DigitChar[d + 1] = ch

IsDigit(ch) == \E d \in 0..9 : DigitChar[d + 1] = ch

RECURSIVE DigitsValue(_, _)
\* minus the value of the longest digit prefix of s, accumulated from acc
\* (<= 0); 1 stands for a magnitude beyond that of INT_MIN
DigitsValue(s, acc) ==
    IF s = <<>> \/ ~IsDigit(Head(s)) THEN acc
    ELSE LET d == DigitVal(Head(s))
             lim == INT_MIN \div 10
         IN  IF acc = 1 \/ acc < lim + 1
                \/ (acc = lim + 1 /\ d > (10 - (INT_MIN % 10)) % 10)
             THEN DigitsValue(Tail(s), 1)
             ELSE DigitsValue(Tail(s), acc * 10 - d)

\* std::stoi: [exc |-> "none", v |-> the int] or the exception it throws
stoi(s) ==
    LET neg  == s # <<>> /\ Head(s) = "-"
        body == IF s # <<>> /\ Head(s) \in {"-", "+"} THEN Tail(s) ELSE s
        mag  == DigitsValue(body, 0)
    IN  IF body = <<>> \/ ~IsDigit(Head(body))
        THEN [exc |-> "invalid_argument", v |-> 0]
        ELSE IF mag = 1 \/ (~neg /\ mag = INT_MIN)
        THEN [exc |-> "out_of_range", v |-> 0]
        ELSE [exc |-> "none", v |-> IF neg THEN mag ELSE 0 - mag]

(***************************************************************************)
(* m_stream_usage_stringize_dynamics: the stream-usage report.             *)
(* ring.errmsg, ring.bufEmpty, ring.banks: what sysfs_get("mem_topology")  *)
(* returns; ring.statErr, ring.attrs: what sysfs_get("str_dma", .../stat)  *)
(* returns for the streaming bank (key |-> the value after the colon).     *)
(***************************************************************************)
StatKeys == {"descq_pidx", "descq_cidx", "descq_rngsz",
             "c2h_wrb_pidx", "descq_cidx_wrb_pend"}

\* stat_map[key] after the sscanf loop: std::map::operator[] yields "" for a
\* key no line carried
stat_map(attrs, key) ==
    IF key \in DOMAIN attrs THEN to_string(attrs[key]) ELSE <<>>

\* ((stoi(pi) - stoi(ci)) & (stoi(rngsz) - 1)) * 4096 held in an int;
\* [exc, v] as for stoi
PendingMutNoMask(pi, ci, rngsz) ==
    LET a == stoi(pi)
        b == stoi(ci)
        r == stoi(rngsz)
    IN  IF a.exc # "none" THEN a
        ELSE IF b.exc # "none" THEN b
        ELSE IF r.exc # "none" THEN r
        ELSE [exc |-> "none",
              v |-> MulInt(BitAnd(SubInt(a.v, b.v), r.v), 4096)]

PendingMutAdd(pi, ci, rngsz) ==
    LET a == stoi(pi)
        b == stoi(ci)
        r == stoi(rngsz)
    IN  IF a.exc # "none" THEN a
        ELSE IF b.exc # "none" THEN b
        ELSE IF r.exc # "none" THEN r
        ELSE [exc |-> "none",
              v |-> MulInt(BitAnd(AddInt(a.v, b.v), SubInt(r.v, 1)), 4096)]

\* the same on the three stoi results a, b, r
PendingOf(a, b, r) ==
    IF a.exc # "none" THEN a
    ELSE IF b.exc # "none" THEN b
    ELSE IF r.exc # "none" THEN r
    ELSE [exc |-> "none",
          v |-> MulInt(BitAnd(SubInt(a.v, b.v), SubInt(r.v, 1)), 4096)]

Pending(pi, ci, rngsz) == PendingOf(stoi(pi), stoi(ci), stoi(rngsz))

\* a - b on ints leaves the range of int
SubOverflows(a, b) ==
    \/ (a >= 0 /\ b < 0 /\ a > INT_MAX + b)
    \/ (a < 0 /\ b > 0 /\ a < INT_MIN + b)

\* the evaluation of the pending expression overflows a signed int, which
\* is undefined: in the subtraction of the indices, in rngsz - 1 or in the
\* multiplication by 4096
MulOverflows(x, k) == x > INT_MAX \div k \/ x < INT_MIN \div k

PendingOverflowsOf(a, b, r) ==
    /\ a.exc = "none" /\ b.exc = "none" /\ r.exc = "none"
    /\ \/ SubOverflows(a.v, b.v)
       \/ r.v = INT_MIN
       \/ MulOverflows(BitAnd(SubInt(a.v, b.v), SubInt(r.v, 1)), 4096)

PendingOverflows(pi, ci, rngsz) ==
    PendingOverflowsOf(stoi(pi), stoi(ci), stoi(rngsz))

\* what a build makes of the undefined behaviour of the report.  ovf, a
\* signed overflow: the value wraps, or the process is stopped (-ftrapv, a
\* sanitizer).  oob, a read of m_mem_data past the end of the buffer: the
\* process faults, or the bytes found there are taken for an entry.
UbOutcomes == [ovf : {"wrap", "trap"}, oob : {"fault", "garbage"}]

\* i < num on unsigned operands held as ints of the same bit pattern, for
\* i >= 0
ULess(i, num) == num < 0 \/ i < num

\* the row of one streaming bank (lines 764-818): flag is "m_tag ends in w"
\* the row of an active queue whose pending expression gave p
PendingRow(i, p) ==
    [idx |-> i, status |-> "Active", exc |-> p.exc,
     pending |-> IF p.exc = "none" THEN to_string(p.v) ELSE <<>>]

\* the row made from the three stat values of the queue's direction
QueueRow(i, pi, ci, rngsz, ub) ==
    IF ub.ovf = "trap" /\ PendingOverflows(pi, ci, rngsz)
    THEN [idx |-> i, status |-> "Active", exc |-> "trap", pending |-> <<>>]
    ELSE PendingRow(i, Pending(pi, ci, rngsz))

StreamRow(i, bank, statErr, attrs, ub) ==
    IF statErr
    THEN [idx |-> i, status |-> "Inactive", exc |-> "none", pending |-> <<>>]
    ELSE QueueRow(i,
                  stat_map(attrs, IF bank.tagW THEN "descq_pidx"
                                  ELSE "c2h_wrb_pidx"),
                  stat_map(attrs, IF bank.tagW THEN "descq_cidx"
                                  ELSE "descq_cidx_wrb_pend"),
                  stat_map(attrs, "descq_rngsz"),
                  ub)

RECURSIVE StreamRows(_, _, _, _, _, _)
\* a row, and the rows after it unless its stoi threw or the process stopped
RowThenRest(row, i, num, banks, statErr, attrs, ub) ==
    IF row.exc # "none" THEN <<row>>
    ELSE <<row>> \o StreamRows(i + 1, num, banks, statErr, attrs, ub)

\* the loop of lines 756-820 from bank i (0-based) on; rows are produced up to
\* and including the first one whose stoi throws
StreamRows(i, num, banks, statErr, attrs, ub) ==
    IF ~ULess(i, num) THEN <<>>
    \* m_mem_data[i] lies past the entries the buffer holds
    ELSE IF i >= Len(banks)
    THEN <<[idx |-> i, status |-> "past the buffer",
            exc |-> IF ub.oob = "fault" THEN "SIGSEGV" ELSE "none",
            pending |-> <<>>]>>
    ELSE IF banks[i + 1].m_type # "MEM_STREAMING"
    THEN StreamRows(i + 1, num, banks, statErr, attrs, ub)
    ELSE RowThenRest(StreamRow(i, banks[i + 1], statErr, attrs, ub),
                     i, num, banks, statErr, attrs, ub)

\* what the function leaves for a count num and the rows of its loop
StreamLines(num, rows) ==
    IF num = 0
    THEN [ret |-> "lines", head |-> "none found", rows |-> <<>>]
    \* the test num < 0 is on an unsigned and never holds
    ELSE IF rows # <<>> /\ rows[Len(rows)].exc # "none"
    THEN [ret |-> rows[Len(rows)].exc, head |-> "table", rows |-> rows]
    ELSE [ret |-> "lines", head |-> "table", rows |-> rows]

\* the whole function: what it appends to `lines`, or the exception that
\* leaves it
m_stream_usage_stringize_dynamics(r) ==
    IF r.errmsg
    THEN [ret |-> "lines", head |-> "errmsg", rows |-> <<>>]
    ELSE StreamLines(IF r.bufEmpty THEN 0 ELSE r.m_count,
                     StreamRows(0, IF r.bufEmpty THEN 0 ELSE r.m_count,
                                r.banks, r.statErr, r.attrs, r.ub))

(***************************************************************************)
(* The states of the stream report: the topology and the stream's stat as  *)
(* the driver publishes them, and the reports made from them.              *)
(***************************************************************************)
IdxVals == (0..MaxIdx) \cup {Pow2(19), INT_MAX}

\* descq_rngsz: the powers of two up to MaxRingLog, one size that is not a
\* power of two, and one whose mask times 4096 exceeds INT_MAX
RingSizes == {Pow2(k) : k \in 0..MaxRingLog} \cup {6, Pow2(20)}

IsPow2(n) == \E k \in 0..(IntBits - 2) : n = Pow2(k)

DdrBank == [m_type |-> "MEM_DDR4", tagW |-> FALSE]

StreamBank(w) == [m_type |-> "MEM_STREAMING", tagW |-> w]

StreamTopos ==
    {<<DdrBank>>} \cup
    UNION {{<<StreamBank(w)>>, <<DdrBank, StreamBank(w)>>,
            <<StreamBank(w), DdrBank>>} : w \in BOOLEAN}

\* the stat lines of a queue: the index pair of its direction takes every
\* value, the other pair is 0 or 1 over 0
StatAttrs(w) ==
    {[k \in StatKeys |->
        CASE k = "descq_rngsz" -> r
          [] k = "descq_pidx" -> IF w THEN a ELSE x
          [] k = "descq_cidx" -> IF w THEN b ELSE y
          [] k = "c2h_wrb_pidx" -> IF w THEN x ELSE a
          [] OTHER -> IF w THEN y ELSE b] :
        a \in IdxVals, b \in IdxVals, x \in {0, 1}, y \in {0},
        r \in RingSizes}

NoAttrs == [k \in {} |-> 0]

NoReport == [ret |-> "none", head |-> "none", rows |-> <<>>]

NoUb == [ovf |-> "wrap", oob |-> "fault"]

RingStates ==
    {[errmsg |-> e, bufEmpty |-> be, m_count |-> Len(t), banks |-> t,
      statErr |-> se, attrs |-> at, ub |-> NoUb,
      out |-> NoReport, prev |-> NoReport, phase |-> "init"] :
        e \in {FALSE}, be \in {FALSE}, se \in {FALSE},
        t \in StreamTopos,
        at \in UNION {StatAttrs(w) : w \in BOOLEAN}}
    \cup
    \* the build that stops on a signed overflow, for the ring size that
    \* can overflow
    {[errmsg |-> FALSE, bufEmpty |-> FALSE, m_count |-> Len(t), banks |-> t,
      statErr |-> FALSE, attrs |-> at,
      ub |-> [ovf |-> "trap", oob |-> "fault"],
      out |-> NoReport, prev |-> NoReport, phase |-> "init"] :
        t \in StreamTopos,
        at \in {x \in UNION {StatAttrs(w) : w \in BOOLEAN} :
                  x["descq_rngsz"] = Pow2(20)}}
    \cup
    {[errmsg |-> e, bufEmpty |-> be, m_count |-> Len(t), banks |-> t,
      statErr |-> se, attrs |-> NoAttrs, ub |-> NoUb, out |-> NoReport,
      prev |-> NoReport, phase |-> "init"] :
        e \in BOOLEAN, be \in BOOLEAN, se \in BOOLEAN,
        t \in StreamTopos \cup {<<>>}}
    \cup
    \* a descriptor whose m_count is negative, before entries or none
    {[errmsg |-> FALSE, bufEmpty |-> FALSE, m_count |-> 0 - 1, banks |-> t,
      statErr |-> se, attrs |-> NoAttrs, ub |-> u, out |-> NoReport,
      prev |-> NoReport, phase |-> "init"] :
        se \in BOOLEAN, t \in StreamTopos \cup {<<>>}, u \in UbOutcomes}

RingIdle ==
    [errmsg |-> FALSE, bufEmpty |-> TRUE, m_count |-> 0, banks |-> <<>>,
     statErr |-> FALSE, attrs |-> NoAttrs, ub |-> NoUb, out |-> NoReport,
     prev |-> NoReport, phase |-> "idle"]

\* a call of m_stream_usage_stringize_dynamics (printStreamInfo)
StreamReport ==
    /\ ring.phase \in {"init", "wrapped"}
    /\ ring' = [ring EXCEPT
                  !.prev = ring.out,
                  !.out = m_stream_usage_stringize_dynamics(ring),
                  !.phase = IF ring.phase = "init" THEN "reported"
                            ELSE "rereported"]
    /\ UNCHANGED <<life, dma, ddst, cu, mem, tel, usage, race, own>>

ProducerKeys == {"descq_pidx", "c2h_wrb_pidx"}
ConsumerKeys == {"descq_cidx", "descq_cidx_wrb_pend"}

\* the device moves on between two reports: the producer indices, the
\* consumer indices or both have advanced by one ring size
DeviceWrap(keys) ==
    /\ ring.phase = "reported"
    /\ DOMAIN ring.attrs = StatKeys
    /\ \A k \in keys : ring.attrs[k] <= INT_MAX - ring.attrs["descq_rngsz"]
    /\ ring' = [ring EXCEPT
                  !.attrs = [k \in StatKeys |->
                               IF k \in keys
                               THEN ring.attrs[k] + ring.attrs["descq_rngsz"]
                               ELSE ring.attrs[k]],
                  !.phase = "wrapped"]
    /\ UNCHANGED <<life, dma, ddst, cu, mem, tel, usage, race, own>>

NextRing ==
    \/ StreamReport
    \/ DeviceWrap(ProducerKeys)
    \/ DeviceWrap(ConsumerKeys)
    \/ DeviceWrap(ProducerKeys \cup ConsumerKeys)

(***************************************************************************)
(* device::program and device::boot.  life.m_handle is the device handle   *)
(* (0 is nullptr); life.calls are the device API calls the last operation  *)
(* issued, in order; life.locked is the device lock as xclLockDevice and   *)
(* xclUnlockDevice leave it.                                               *)
(***************************************************************************)
MaxOpens == 3        \* handles xclOpen hands out
MaxPayload == 1      \* bytes of a bitstream file after its 8-byte header

ENOENT == 2
EACCES == 13
EINVAL == 22

NUL == "NUL"

Tag0 == <<"x", "c", "l", "b", "i", "n", "0", NUL>>
Tag2 == <<"x", "c", "l", "b", "i", "n", "2", NUL>>

\* 8-byte file prefixes: the two tags, and others near and far from them
Headers ==
    {Tag0, Tag2,
     <<"n", "o", "t", "v", "a", "l", "i", "d">>,
     <<"x", "c", "l", "b", "i", "n", "1", NUL>>,
     <<"x", "c", "l", "b", "i", "n", "2", "x">>,
     <<"x", "c", "l", "b", "i", "n", "0", "x">>,
     <<"x", "c", "l", "b", "i", "n", NUL, NUL>>,
     <<"X", "c", "l", "b", "i", "n", "2", NUL>>}

RECURSIVE strncmp(_, _, _)
\* 0 when the first n characters of s1 and s2 agree up to and including a
\* NUL, else 1 (the sign of a difference is not used)
strncmp(s1, s2, n) ==
    IF n = 0 THEN 0
    ELSE IF Head(s1) # Head(s2) THEN 1
    ELSE IF Head(s1) = NUL THEN 0
    ELSE strncmp(Tail(s1), Tail(s2), n - 1)

\* char temp[8] after stream.read(temp, 8): the bytes the file has, then
\* what the array held before (garbage)
TempAfterRead(head, garbage) ==
    head \o SubSeq(garbage, Len(head) + 1, 8)

Call(fn, h, res) == [fn |-> fn, h |-> h, res |-> res]

\* device::program: the outcome [ret, exc, out, calls, locked] for a file
\* that opens or not, its first bytes `head` (at most 8) and size, the
\* region, and the results the device API gives
programMutNoMagic(h, locked, fileOpen, head, size, garbage, region, lockRes, loadRes) ==
    IF ~fileOpen
    THEN [ret |-> 0 - ENOENT, exc |-> "none", out |-> <<"Cannot open">>,
          calls |-> <<>>, locked |-> locked]
    ELSE IF region # 0
    THEN [ret |-> 0 - EINVAL, exc |-> "none",
          out |-> <<"Not support other than -r 0">>,
          calls |-> <<>>, locked |-> locked]
    ELSE IF Len(head) < 8
    THEN [ret |-> 0, exc |-> "bad_array_new_length", out |-> <<>>,
          calls |-> <<>>, locked |-> locked]
    ELSE IF lockRes # 0
    THEN [ret |-> lockRes, exc |-> "none", out |-> <<>>,
          calls |-> <<Call("xclLockDevice", h, lockRes)>>,
          locked |-> locked]
    ELSE [ret |-> loadRes, exc |-> "none", out |-> <<>>,
          calls |-> <<Call("xclLockDevice", h, 0),
                      Call("xclLoadXclBin", h, loadRes),
                      Call("xclUnlockDevice", h, 0)>>,
          locked |-> FALSE]

programMutRegionLate(h, locked, fileOpen, head, size, garbage, region, lockRes, loadRes) ==
    LET temp == TempAfterRead(head, garbage)
    IN
    IF ~fileOpen
    THEN [ret |-> 0 - ENOENT, exc |-> "none", out |-> <<"Cannot open">>,
          calls |-> <<>>, locked |-> locked]
    ELSE IF strncmp(temp, Tag0, 8) # 0 /\ strncmp(temp, Tag2, 8) # 0
    THEN [ret |-> 0 - EINVAL, exc |-> "none", out |-> <<>>,
          calls |-> <<>>, locked |-> locked]
    ELSE IF Len(head) < 8
    THEN [ret |-> 0, exc |-> "bad_array_new_length", out |-> <<>>,
          calls |-> <<>>, locked |-> locked]
    ELSE IF lockRes # 0
    THEN [ret |-> lockRes, exc |-> "none", out |-> <<>>,
          calls |-> <<Call("xclLockDevice", h, lockRes)>>,
          locked |-> locked]
    ELSE IF region # 0
    THEN [ret |-> 0 - EINVAL, exc |-> "none",
          out |-> <<"Not support other than -r 0">>,
          calls |-> <<Call("xclLockDevice", h, 0),
                      Call("xclUnlockDevice", h, 0)>>,
          locked |-> FALSE]
    ELSE [ret |-> loadRes, exc |-> "none", out |-> <<>>,
          calls |-> <<Call("xclLockDevice", h, 0),
                      Call("xclLoadXclBin", h, loadRes),
                      Call("xclUnlockDevice", h, 0)>>,
          locked |-> FALSE]

programMutNoUnlock(h, locked, fileOpen, head, size, garbage, region, lockRes, loadRes) ==
    LET temp == TempAfterRead(head, garbage)
    IN
    IF ~fileOpen
    THEN [ret |-> 0 - ENOENT, exc |-> "none", out |-> <<"Cannot open">>,
          calls |-> <<>>, locked |-> locked]
    ELSE IF region # 0
    THEN [ret |-> 0 - EINVAL, exc |-> "none",
          out |-> <<"Not support other than -r 0">>,
          calls |-> <<>>, locked |-> locked]
    ELSE IF strncmp(temp, Tag0, 8) # 0 /\ strncmp(temp, Tag2, 8) # 0
    THEN [ret |-> 0 - EINVAL, exc |-> "none", out |-> <<>>,
          calls |-> <<>>, locked |-> locked]
    ELSE IF Len(head) < 8
    THEN [ret |-> 0, exc |-> "bad_array_new_length", out |-> <<>>,
          calls |-> <<>>, locked |-> locked]
    ELSE IF lockRes # 0
    THEN [ret |-> lockRes, exc |-> "none", out |-> <<>>,
          calls |-> <<Call("xclLockDevice", h, lockRes)>>,
          locked |-> locked]
    ELSE IF loadRes # 0
    THEN [ret |-> loadRes, exc |-> "none", out |-> <<>>,
          calls |-> <<Call("xclLockDevice", h, 0),
                      Call("xclLoadXclBin", h, loadRes)>>,
          locked |-> TRUE]
    ELSE [ret |-> loadRes, exc |-> "none", out |-> <<>>,
          calls |-> <<Call("xclLockDevice", h, 0),
                      Call("xclLoadXclBin", h, loadRes),
                      Call("xclUnlockDevice", h, 0)>>,
          locked |-> FALSE]

programMutLockFirst(h, locked, fileOpen, head, size, garbage, region, lockRes, loadRes) ==
    LET temp == TempAfterRead(head, garbage)
    IN
    IF ~fileOpen
    THEN [ret |-> 0 - ENOENT, exc |-> "none", out |-> <<"Cannot open">>,
          calls |-> <<>>, locked |-> locked]
    ELSE IF region # 0
    THEN [ret |-> 0 - EINVAL, exc |-> "none",
          out |-> <<"Not support other than -r 0">>,
          calls |-> <<>>, locked |-> locked]
    ELSE IF lockRes # 0
    THEN [ret |-> lockRes, exc |-> "none", out |-> <<>>,
          calls |-> <<Call("xclLockDevice", h, lockRes)>>,
          locked |-> locked]
    ELSE IF strncmp(temp, Tag0, 8) # 0 /\ strncmp(temp, Tag2, 8) # 0
    THEN [ret |-> 0 - EINVAL, exc |-> "none", out |-> <<>>,
          calls |-> <<Call("xclLockDevice", h, 0),
                      Call("xclUnlockDevice", h, 0)>>,
          locked |-> FALSE]
    ELSE IF Len(head) < 8
    THEN [ret |-> 0, exc |-> "bad_array_new_length", out |-> <<>>,
          calls |-> <<Call("xclLockDevice", h, 0)>>, locked |-> TRUE]
    ELSE [ret |-> loadRes, exc |-> "none", out |-> <<>>,
          calls |-> <<Call("xclLockDevice", h, 0),
                      Call("xclLoadXclBin", h, loadRes),
                      Call("xclUnlockDevice", h, 0)>>,
          locked |-> FALSE]

program(h, locked, fileOpen, head, size, garbage, region, lockRes, loadRes) ==
    LET temp == TempAfterRead(head, garbage)
    IN
    IF ~fileOpen
    THEN [ret |-> 0 - ENOENT, exc |-> "none", out |-> <<"Cannot open">>,
          calls |-> <<>>, locked |-> locked]
    ELSE IF region # 0
    THEN [ret |-> 0 - EINVAL, exc |-> "none",
          out |-> <<"Not support other than -r 0">>,
          calls |-> <<>>, locked |-> locked]
    ELSE IF strncmp(temp, Tag0, 8) # 0 /\ strncmp(temp, Tag2, 8) # 0
    THEN [ret |-> 0 - EINVAL, exc |-> "none", out |-> <<>>,
          calls |-> <<>>, locked |-> locked]
    \* a short read leaves failbit set: tellg() is -1 and new char[-1] throws
    ELSE IF Len(head) < 8
    THEN [ret |-> 0, exc |-> "bad_array_new_length", out |-> <<>>,
          calls |-> <<>>, locked |-> locked]
    ELSE IF lockRes # 0
    THEN [ret |-> lockRes, exc |-> "none", out |-> <<>>,
          calls |-> <<Call("xclLockDevice", h, lockRes)>>,
          locked |-> locked]
    ELSE [ret |-> loadRes, exc |-> "none", out |-> <<>>,
          calls |-> <<Call("xclLockDevice", h, 0),
                      Call("xclLoadXclBin", h, loadRes),
                      Call("xclUnlockDevice", h, 0)>>,
          locked |-> FALSE]

\* device::boot: the outcome [ret, out, calls, m_handle] for the caller's
\* uid and euid, the result of xclBootFPGA and the handle xclOpen returns
bootMutNoCheck(h, idx, uid, euid, bootRes, reopened) ==
    IF bootRes = 0
    THEN [ret |-> IF reopened # 0 THEN 0 ELSE 0 - 1, out |-> <<>>,
          calls |-> <<Call("xclBootFPGA", h, 0),
                      Call("xclOpen", idx, reopened)>>,
          m_handle |-> reopened]
    ELSE [ret |-> bootRes, out |-> <<>>,
          calls |-> <<Call("xclBootFPGA", h, bootRes)>>, m_handle |-> h]

bootMutReopenAlways(h, idx, uid, euid, bootRes, reopened) ==
    IF uid # 0 /\ euid # 0
    THEN [ret |-> 0 - EACCES,
          out |-> <<"boot operation requires root privileges">>,
          calls |-> <<>>, m_handle |-> h]
    ELSE [ret |-> IF bootRes # 0 THEN bootRes
                  ELSE IF reopened # 0 THEN 0 ELSE 0 - 1,
          out |-> <<>>,
          calls |-> <<Call("xclBootFPGA", h, bootRes),
                      Call("xclOpen", idx, reopened)>>,
          m_handle |-> reopened]

boot(h, idx, uid, euid, bootRes, reopened) ==
    IF uid # 0 /\ euid # 0
    THEN [ret |-> 0 - EACCES,
          out |-> <<"boot operation requires root privileges">>,
          calls |-> <<>>, m_handle |-> h]
    ELSE IF bootRes = 0
    THEN [ret |-> IF reopened # 0 THEN 0 ELSE 0 - 1, out |-> <<>>,
          calls |-> <<Call("xclBootFPGA", h, 0),
                      Call("xclOpen", idx, reopened)>>,
          m_handle |-> reopened]
    ELSE [ret |-> bootRes, out |-> <<>>,
          calls |-> <<Call("xclBootFPGA", h, bootRes)>>, m_handle |-> h]

\* a call that carries a reset kind
CallKind(fn, h, kind, res) == [fn |-> fn, h |-> h, kind |-> kind, res |-> res]

\* 0xffffffff as the int of the same bit pattern
ALL_REGIONS == 0 - 1

\* device::reset: the outcome [ret, calls, m_handle]
resetMutKind(h, region, resetRes) ==
    LET kind == IF region = 0 THEN "XCL_RESET_FULL" ELSE "XCL_RESET_KERNEL"
    IN  [ret |-> resetRes,
         calls |-> <<CallKind("xclResetDevice", h, kind, resetRes)>>,
         m_handle |-> h]

reset(h, region, resetRes) ==
    LET kind == IF region = ALL_REGIONS THEN "XCL_RESET_FULL"
                ELSE "XCL_RESET_KERNEL"
    IN  [ret |-> resetRes,
         calls |-> <<CallKind("xclResetDevice", h, kind, resetRes)>>,
         m_handle |-> h]

\* device::device(idx, log): the outcome [exc, what, calls, m_handle, alive]
\* for the handle xclOpen returns (0: nullptr) and the results of
\* xclGetDeviceInfo2 and xclGetErrorStatus.  A constructor that throws
\* leaves no object, and ~device does not run for it.
deviceMutNoErrinfo(idx, opened, infoRes, errRes) ==
    IF opened = 0
    THEN [exc |-> "runtime_error", what |-> <<"Failed to open">>,
          calls |-> <<Call("xclOpen", idx, 0)>>,
          m_handle |-> 0, alive |-> FALSE]
    ELSE IF infoRes # 0
    THEN [exc |-> "runtime_error", what |-> <<"Unable to obtain info">>,
          calls |-> <<Call("xclOpen", idx, opened),
                      Call("xclGetDeviceInfo2", opened, infoRes)>>,
          m_handle |-> 0, alive |-> FALSE]
    ELSE [exc |-> "none", what |-> <<>>,
          calls |-> <<Call("xclOpen", idx, opened),
                      Call("xclGetDeviceInfo2", opened, 0)>>,
          m_handle |-> opened, alive |-> TRUE]

device(idx, opened, infoRes, errRes) ==
    IF opened = 0
    THEN [exc |-> "runtime_error", what |-> <<"Failed to open">>,
          calls |-> <<Call("xclOpen", idx, 0)>>,
          m_handle |-> 0, alive |-> FALSE]
    ELSE IF infoRes # 0
    THEN [exc |-> "runtime_error", what |-> <<"Unable to obtain info">>,
          calls |-> <<Call("xclOpen", idx, opened),
                      Call("xclGetDeviceInfo2", opened, infoRes)>>,
          m_handle |-> 0, alive |-> FALSE]
    ELSE IF errRes # 0
    THEN [exc |-> "runtime_error", what |-> <<"Unable to obtain AXI error">>,
          calls |-> <<Call("xclOpen", idx, opened),
                      Call("xclGetDeviceInfo2", opened, 0),
                      Call("xclGetErrorStatus", opened, errRes)>>,
          m_handle |-> 0, alive |-> FALSE]
    ELSE [exc |-> "none", what |-> <<>>,
          calls |-> <<Call("xclOpen", idx, opened),
                      Call("xclGetDeviceInfo2", opened, 0),
                      Call("xclGetErrorStatus", opened, 0)>>,
          m_handle |-> opened, alive |-> TRUE]

\* device::~device: xclClose(m_handle), whatever m_handle is
destroy(h) == [calls |-> <<Call("xclClose", h, 0)>>, alive |-> FALSE]

NoArgs == [fileOpen |-> FALSE, head |-> <<>>, size |-> 0, region |-> 0,
           uid |-> 0, euid |-> 0]

\* the device object after its constructor: handle 1 from xclOpen
LifeStart ==
    [m_idx |-> 0, m_handle |-> 1, opens |-> 1, alive |-> TRUE,
     replaced |-> {}, locked |-> FALSE, op |-> "none", args |-> NoArgs, before |-> 1,
     ret |-> 0, exc |-> "none", out |-> <<>>, calls |-> <<>>]

LifeIdle == [LifeStart EXCEPT !.op = "idle"]

\* results of the device API: 0 or an error
ApiResults == {0, 0 - 1}

\* `unsigned region`, held as the int of the same bit pattern (-1: 0xffffffff)
Regions == {0, 1, 2, 0 - 1}

\* what the stack array temp may hold before the read
Garbage == {Tag0, Tag2, <<"n", "o", "t", "v", "a", "l", "i", "d">>}

\* the bitstream files: one that cannot be opened, files of 8 bytes or more,
\* and files shorter than the header
XclbinFiles ==
    {[fileOpen |-> FALSE, head |-> <<>>, size |-> 0, garbage |-> Tag0]}
    \cup {[fileOpen |-> TRUE, head |-> hd, size |-> 8 + extra,
           garbage |-> Tag0] : hd \in Headers, extra \in 0..MaxPayload}
    \cup {[fileOpen |-> TRUE, head |-> SubSeq(hd, 1, k), size |-> k,
           garbage |-> g] : hd \in Headers, k \in {0, 4}, g \in Garbage}

\* a call of program(xclbin, region)
DoProgram ==
    \E f \in XclbinFiles, region \in Regions,
       lockRes \in ApiResults, loadRes \in ApiResults :
        LET o == program(life.m_handle, life.locked, f.fileOpen, f.head,
                         f.size, f.garbage, region, lockRes, loadRes)
        IN  /\ life.alive
            /\ life.exc = "none"
            /\ life' = [life EXCEPT
                          !.op = "program",
                          !.args = [NoArgs EXCEPT !.fileOpen = f.fileOpen,
                                      !.head = f.head, !.size = f.size,
                                      !.region = region],
                          !.before = life.m_handle,
                          !.ret = o.ret, !.exc = o.exc, !.out = o.out,
                          !.calls = o.calls, !.locked = o.locked]
            /\ UNCHANGED <<ring, dma, ddst, cu, mem, tel, usage, race, own>>

\* a call of boot()
DoBoot ==
    \E uid \in {0, 1000}, euid \in {0, 1000}, bootRes \in ApiResults,
       reopenOk \in BOOLEAN :
        LET reopened == IF reopenOk /\ life.opens < MaxOpens
                        THEN life.opens + 1 ELSE 0
            o == boot(life.m_handle, life.m_idx, uid, euid, bootRes, reopened)
        IN  /\ life.alive
            /\ life.exc = "none"
            /\ life' = [life EXCEPT
                          !.op = "boot",
                          !.args = [NoArgs EXCEPT !.uid = uid, !.euid = euid],
                          !.before = life.m_handle,
                          !.ret = o.ret, !.exc = "none", !.out = o.out,
                          !.calls = o.calls, !.m_handle = o.m_handle,
                          !.replaced = IF o.m_handle # life.m_handle
                                          /\ life.m_handle # 0
                                       THEN life.replaced \cup {life.m_handle}
                                       ELSE life.replaced,
                          !.opens = IF o.m_handle # life.m_handle
                                       /\ o.m_handle # 0
                                    THEN o.m_handle ELSE life.opens]
            /\ UNCHANGED <<ring, dma, ddst, cu, mem, tel, usage, race, own>>

\* a call of reset(region)
DoReset ==
    \E region \in Regions, resetRes \in ApiResults :
        LET o == reset(life.m_handle, region, resetRes)
        IN  /\ life.alive
            /\ life.exc = "none"
            /\ life' = [life EXCEPT
                          !.op = "reset",
                          !.args = [NoArgs EXCEPT !.region = region],
                          !.before = life.m_handle,
                          !.ret = o.ret, !.exc = "none", !.out = <<>>,
                          !.calls = o.calls, !.m_handle = o.m_handle]
            /\ UNCHANGED <<ring, dma, ddst, cu, mem, tel, usage, race, own>>

\* the device object goes out of scope
DoClose ==
    LET o == destroy(life.m_handle)
    IN  /\ life.alive
        /\ life' = [life EXCEPT
                      !.op = "close", !.args = NoArgs,
                      !.before = life.m_handle,
                      !.ret = 0, !.exc = "none", !.out = <<>>,
                      !.calls = o.calls, !.alive = o.alive]
        /\ UNCHANGED <<ring, dma, ddst, cu, mem, tel, usage, race, own>>

\* a device object is constructed for the same index
DoOpen ==
    \E openOk \in BOOLEAN, infoRes \in ApiResults, errRes \in ApiResults :
        LET opened == IF openOk /\ life.opens < MaxOpens
                      THEN life.opens + 1 ELSE 0
            o == device(life.m_idx, opened, infoRes, errRes)
        IN  /\ ~life.alive
            /\ life' = [life EXCEPT
                          !.op = "open", !.args = NoArgs,
                          !.before = 0,
                          !.ret = 0, !.exc = o.exc, !.out = o.what,
                          !.calls = o.calls, !.m_handle = o.m_handle,
                          !.alive = o.alive, !.locked = FALSE,
                          !.opens = IF opened # 0 THEN opened
                                    ELSE life.opens]
            /\ UNCHANGED <<ring, dma, ddst, cu, mem, tel, usage, race, own>>

NextLife ==
    \/ DoProgram
    \/ DoBoot
    \/ DoReset
    \/ DoClose
    \/ DoOpen

(***************************************************************************)
(* device::dmatest.  dma.errmsg, dma.bufEmpty, dma.m_count, dma.banks:     *)
(* what sysfs_get("mem_topology") returns; dma.i, dma.sz, dma.result: the  *)
(* locals of the same names; dma.pc: the next statement; dma.log: the      *)
(* transfers issued so far, in order.                                      *)
(***************************************************************************)
MaxBanks == 2        \* entries of m_mem_data

\* m_mem_data[k] of a topology: a used or unused DDR bank or a streaming
\* bank, bank k at base address k * 4096
MemKinds ==
    {[m_type |-> "MEM_DDR4", m_used |-> 1],
     [m_type |-> "MEM_DDR4", m_used |-> 0],
     [m_type |-> "MEM_STREAMING", m_used |-> 1]}

RECURSIVE SeqsUpTo(_, _)
SeqsUpTo(S, n) ==
    IF n = 0 THEN {<<>>}
    ELSE LET shorter == SeqsUpTo(S, n - 1)
         IN  shorter \cup {Append(q, x) : q \in shorter, x \in S}

m_base_address(k) == k * 4096

\* the first size of the sweep and the last
FirstSz == 1
LastSz == 256

RECURSIVE NextBankMutUnused(_, _)
NextBankMutUnused(d, i) ==
    IF ~(i < d.m_count) THEN i
    ELSE IF d.banks[i + 1].m_type = "MEM_STREAMING"
    THEN NextBankMutUnused(d, i + 1)
    ELSE i

RECURSIVE NextBank(_, _)
\* the loop of line 1223 from bank i on: the first bank that is not
\* streaming and is used, or m_count when the loop ends (int32_t i)
NextBank(d, i) ==
    IF ~(i < d.m_count) THEN i
    ELSE IF d.banks[i + 1].m_type = "MEM_STREAMING" THEN NextBank(d, i + 1)
    ELSE IF d.banks[i + 1].m_used # 0 THEN i
    ELSE NextBank(d, i + 1)

Xfer(op, bank, addr, sz, res) ==
    [op |-> op, bank |-> bank, addr |-> addr, sz |-> sz, res |-> res]

\* control after the bank loop: the ARE latency loops, then `return result`
AfterBanks(d) ==
    IF d.isARE THEN [d EXCEPT !.pc = "are"]
    ELSE [d EXCEPT !.pc = "done", !.ret = d.result]

\* control at the head of the bank loop with loop variable i
LoopHead(d, i) ==
    LET j == NextBank(d, i)
    IN  IF j < d.m_count
        THEN [d EXCEPT !.pc = "write", !.i = j, !.sz = FirstSz]
        ELSE AfterBanks([d EXCEPT !.i = j])

\* lines 1184-1221: the topology checks before the loop
dmatestEntry(d) ==
    IF d.errmsg THEN [d EXCEPT !.pc = "done", !.ret = 0 - EINVAL]
    ELSE IF d.bufEmpty \/ d.m_count = 0
    THEN [d EXCEPT !.pc = "done", !.ret = 0 - EINVAL]
    ELSE LoopHead([d EXCEPT !.result = 0], 0)

\* lines 1235-1237: result = memwriteQuiet(addr, sz, pattern)
memwriteStep(d, res) ==
    LET e == [d EXCEPT !.result = res,
                !.log = Append(d.log, Xfer("write", d.i,
                                           m_base_address(d.i), d.sz, res))]
    IN  IF res < 0 THEN [e EXCEPT !.pc = "done", !.ret = res]
        ELSE [e EXCEPT !.pc = "read"]

\* lines 1238-1241 with a read-back failure passed over
memreadStepMutContinue(d, res) ==
    LET e == [d EXCEPT !.result = res,
                !.log = Append(d.log, Xfer("read", d.i,
                                           m_base_address(d.i), d.sz, res))]
    IN  IF d.sz * 2 <= LastSz
        THEN [e EXCEPT !.pc = "write", !.sz = d.sz * 2]
        ELSE [e EXCEPT !.pc = "bulk"]

\* lines 1238-1241: result = memreadCompare(addr, sz, pattern, false), then
\* the step of the size loop
memreadStep(d, res) ==
    LET e == [d EXCEPT !.result = res,
                !.log = Append(d.log, Xfer("read", d.i,
                                           m_base_address(d.i), d.sz, res))]
    IN  IF res < 0 THEN [e EXCEPT !.pc = "done", !.ret = res]
        ELSE IF d.sz * 2 <= LastSz
        THEN [e EXCEPT !.pc = "write", !.sz = d.sz * 2]
        ELSE [e EXCEPT !.pc = "bulk"]

\* lines 1242-1243: result = runner.run(), then the step of the bank loop
runnerStep(d, res) ==
    LoopHead([d EXCEPT !.result = res,
                !.log = Append(d.log, Xfer("bulk", d.i, 0, 0, res))],
             d.i + 1)

\* lines 1247-1281: the latency loops of an ARE device (their results are
\* not looked at), then `return result`
areStep(d) ==
    [d EXCEPT !.pc = "done", !.ret = d.result,
       !.log = Append(d.log, Xfer("are", 0, 0, 0, 0))]

\* results of memwriteQuiet, memreadCompare and DMARunner::run
XferResults == {0, 0 - 1}

DmaStates ==
    {[errmsg |-> FALSE, bufEmpty |-> FALSE, m_count |-> Len(t), banks |-> t,
      isARE |-> are, pc |-> "start", i |-> 0, sz |-> FirstSz, result |-> 0,
      ret |-> 0, log |-> <<>>] :
        t \in SeqsUpTo(MemKinds, MaxBanks), are \in BOOLEAN}
    \cup
    {[errmsg |-> e, bufEmpty |-> be, m_count |-> 0, banks |-> <<>>,
      isARE |-> FALSE, pc |-> "start", i |-> 0, sz |-> FirstSz,
      result |-> 0, ret |-> 0, log |-> <<>>] :
        e \in BOOLEAN, be \in BOOLEAN}
    \cup
    \* a descriptor whose m_count is negative
    {[errmsg |-> FALSE, bufEmpty |-> FALSE, m_count |-> 0 - 1,
      banks |-> <<>>, isARE |-> are, pc |-> "start", i |-> 0,
      sz |-> FirstSz, result |-> 0, ret |-> 0, log |-> <<>>] :
        are \in BOOLEAN}

DmaIdle ==
    [errmsg |-> FALSE, bufEmpty |-> TRUE, m_count |-> 0, banks |-> <<>>,
     isARE |-> FALSE, pc |-> "idle", i |-> 0, sz |-> FirstSz, result |-> 0,
     ret |-> 0, log |-> <<>>]

DmaEnter ==
    /\ dma.pc = "start"
    /\ dma' = dmatestEntry(dma)
    /\ UNCHANGED <<ring, life, ddst, cu, mem, tel, usage, race, own>>

DmaWrite ==
    /\ dma.pc = "write"
    /\ \E res \in XferResults : dma' = memwriteStep(dma, res)
    /\ UNCHANGED <<ring, life, ddst, cu, mem, tel, usage, race, own>>

DmaReadCompare ==
    /\ dma.pc = "read"
    /\ \E res \in XferResults : dma' = memreadStep(dma, res)
    /\ UNCHANGED <<ring, life, ddst, cu, mem, tel, usage, race, own>>

DmaBulk ==
    /\ dma.pc = "bulk"
    /\ \E res \in XferResults : dma' = runnerStep(dma, res)
    /\ UNCHANGED <<ring, life, ddst, cu, mem, tel, usage, race, own>>

DmaAre ==
    /\ dma.pc = "are"
    /\ dma' = areStep(dma)
    /\ UNCHANGED <<ring, life, ddst, cu, mem, tel, usage, race, own>>

NextDma ==
    \/ DmaEnter
    \/ DmaWrite
    \/ DmaReadCompare
    \/ DmaBulk
    \/ DmaAre

(***************************************************************************)
(* device::do_dd, reached through the option parser of dd.h.  ddst.opts:   *)
(* the options of the command line; ddst.args: dd::ddArgs_t; ddst.fileLen, *)
(* ddst.fileOk, ddst.mallocOk: the input file and the allocator;           *)
(* ddst.io: the file and device I/O issued, in order.                      *)
(***************************************************************************)
MaxFileLen == 4      \* input files of 0..MaxFileLen bytes (and of 10000)
MaxBs == 2           \* block sizes 1..MaxBs (and 4096)
MaxCount == 3        \* --count 1..MaxCount, or not given

ENOMEM == 12

\* --count not given
NoCount == 0 - 1

\* dd::parse_dd_options: the direction follows from which of --if and --of is
\* given; both given, or --of without --count, is invalid
parse_dd_options(o) ==
    [isValid |-> ~(o.ifGiven /\ o.ofGiven)
                 /\ ~(o.ofGiven /\ ~o.ifGiven /\ o.count <= 0),
     dir |-> IF o.ifGiven /\ ~o.ofGiven THEN "fileToDevice"
             ELSE IF o.ofGiven /\ ~o.ifGiven THEN "deviceToFile"
             ELSE "unset",
     count |-> o.count, blockSize |-> o.bs, skip |-> o.skip, seek |-> o.seek]

Io(op, addr, size) == [op |-> op, addr |-> addr, size |-> size]

RECURSIVE ReadLoop(_, _, _)
\* lines 1389-1393: while (args.count-- > 0) memread(file, addr, blockSize)
ReadLoop(count, addr, bs) ==
    IF ~(count > 0) THEN <<>>
    ELSE <<Io("memread", addr, bs)>> \o ReadLoop(count - 1, addr + bs, bs)

Min(x, y) == IF x <= y THEN x ELSE y

RECURSIVE WriteLoopMutFullBlocks(_, _, _, _)
\* the loop with the partial block at the end of the file not written
WriteLoopMutFullBlocks(count, addr, bs, left) ==
    IF ~(count > 0) THEN <<>>
    ELSE LET inSize == Min(bs, left)
         IN  IF inSize = bs
             THEN <<Io("read", 0, inSize), Io("memwrite", addr, inSize)>>
                  \o WriteLoopMutFullBlocks(count - 1, addr + inSize, bs,
                                            left - inSize)
             ELSE <<Io("read", 0, inSize)>>

RECURSIVE WriteLoop(_, _, _, _)
\* lines 1421-1432: read a block from the file at offset pos, write what was
\* read to the device at addr; a short read ends the loop
WriteLoop(count, addr, bs, left) ==
    IF ~(count > 0) THEN <<>>
    ELSE LET inSize == Min(bs, left)
         IN  <<Io("read", 0, inSize), Io("memwrite", addr, inSize)>>
             \o WriteLoop(IF inSize = bs THEN count - 1 ELSE 0,
                          addr + inSize, bs, left - inSize)

\* lines 1403-1408: the count when none is given
CountFromLength(length, blockSize) == length \div blockSize + 1

\* device::do_dd: [ret, count, io]; count is args.count as the transfer
\* loop starts with it
do_ddMutNoValid(args, fileOk, fileLen, mallocOk) ==
    IF args.dir = "fileToDevice" \/ args.dir = "unset"
    THEN [ret |-> 0 - 1, count |-> args.count, io |-> <<>>]
    ELSE [ret |-> 0, count |-> args.count,
          io |-> ReadLoop(args.count, args.skip, args.blockSize)]

do_dd(args, fileOk, fileLen, mallocOk) ==
    IF ~args.isValid
    THEN [ret |-> 0 - 1, count |-> args.count, io |-> <<>>]
    ELSE IF args.dir = "unset"
    THEN [ret |-> 0 - 1, count |-> args.count, io |-> <<>>]
    ELSE IF args.dir = "deviceToFile"
    THEN [ret |-> 0, count |-> args.count,
          io |-> ReadLoop(args.count, args.skip, args.blockSize)]
    ELSE IF ~fileOk
    THEN [ret |-> ENOENT, count |-> args.count, io |-> <<Io("open", 0, 0)>>]
    ELSE LET count == IF args.count <= 0
                      THEN CountFromLength(fileLen, args.blockSize)
                      ELSE args.count
         IN  IF ~mallocOk
             THEN [ret |-> ENOMEM, count |-> count,
                   io |-> <<Io("open", 0, 0)>>]
             ELSE [ret |-> 0, count |-> count,
                   io |-> <<Io("open", 0, 0)>>
                          \o WriteLoop(count, args.seek, args.blockSize,
                                       fileLen)]

NoDdArgs ==
    [isValid |-> FALSE, dir |-> "unset", count |-> NoCount, blockSize |-> 1,
     skip |-> 0, seek |-> 0]

DdOptions ==
    [ifGiven : BOOLEAN, ofGiven : BOOLEAN,
     count : {NoCount} \cup (1..MaxCount),
     bs : (1..MaxBs) \cup {4096}, skip : {0, 4096}, seek : {0, 8192}]

\* input file lengths: the small ones with every block size, those of
\* thousands of bytes with 4096-byte blocks
FileLens(bs) ==
    IF bs = 4096 THEN (0..MaxFileLen) \cup {4096, 8192, 10000}
    ELSE 0..MaxFileLen

DdStates ==
    UNION {{[opts |-> o, args |-> NoDdArgs, fileOk |-> TRUE,
             fileLen |-> len, mallocOk |-> TRUE, pc |-> "parse", ret |-> 0,
             count |-> NoCount, io |-> <<>>] : len \in FileLens(o.bs)} :
           o \in DdOptions}
    \cup
    {[opts |-> o, args |-> NoDdArgs, fileOk |-> fo, fileLen |-> 0,
      mallocOk |-> mo, pc |-> "parse", ret |-> 0, count |-> NoCount,
      io |-> <<>>] :
        o \in DdOptions, fo \in BOOLEAN, mo \in BOOLEAN}

DdIdle ==
    [opts |-> [ifGiven |-> FALSE, ofGiven |-> FALSE, count |-> NoCount,
               bs |-> 1, skip |-> 0, seek |-> 0],
     args |-> NoDdArgs, fileOk |-> FALSE, fileLen |-> 0, mallocOk |-> FALSE,
     pc |-> "idle", ret |-> 0, count |-> NoCount, io |-> <<>>]

\* the command line is parsed
DdParse ==
    /\ ddst.pc = "parse"
    /\ ddst' = [ddst EXCEPT !.args = parse_dd_options(ddst.opts),
                  !.pc = "parsed"]
    /\ UNCHANGED <<ring, life, dma, cu, mem, tel, usage, race, own>>

\* do_dd is called with the parsed arguments
DdRun ==
    /\ ddst.pc = "parsed"
    /\ LET o == do_dd(ddst.args, ddst.fileOk, ddst.fileLen, ddst.mallocOk)
       IN  ddst' = [ddst EXCEPT !.ret = o.ret, !.count = o.count,
                      !.io = o.io, !.pc = "done"]
    /\ UNCHANGED <<ring, life, dma, cu, mem, tel, usage, race, own>>

NextDd ==
    \/ DdParse
    \/ DdRun

(***************************************************************************)
(* The control register of a compute unit (offset 0x00 of its register     *)
(* map) and its interpreter.  cu.fields: the signals of the block and its  *)
(* reserved bits; cu.snap: the 32-bit value read (statusBuf); cu.status:   *)
(* the decoded status; cu.wr: the start-write built from the snapshot.     *)
(***************************************************************************)
BIT_AP_START == 0
BIT_AP_DONE == 1
BIT_AP_IDLE == 2
BIT_AP_READY == 3
BIT_AUTO_RESTART == 7

\* the register as the block presents it: the five signals at their bits,
\* the reserved bits all 0 or all 1 (an absent address range reads all-ones)
RegisterSnapshot(f) ==
    IF f.reserved = 0
    THEN f.ap_start * Pow2(BIT_AP_START) + f.ap_done * Pow2(BIT_AP_DONE)
         + f.ap_idle * Pow2(BIT_AP_IDLE) + f.ap_ready * Pow2(BIT_AP_READY)
         + f.auto_restart * Pow2(BIT_AUTO_RESTART)
    ELSE (0 - 1)
         - (1 - f.ap_start) * Pow2(BIT_AP_START)
         - (1 - f.ap_done) * Pow2(BIT_AP_DONE)
         - (1 - f.ap_idle) * Pow2(BIT_AP_IDLE)
         - (1 - f.ap_ready) * Pow2(BIT_AP_READY)
         - (1 - f.auto_restart) * Pow2(BIT_AUTO_RESTART)

\* bit n (below 16) of a 32-bit value
Bit(x, n) == (Lo(x) \div Pow2(n)) % 2

ap_start(snap) == Bit(snap, BIT_AP_START)

ap_doneMutBit(snap) == Bit(snap, BIT_AP_START)

ap_done(snap) == Bit(snap, BIT_AP_DONE)

ap_idleMutBit(snap) == Bit(snap, BIT_AP_READY)

ap_idle(snap) == Bit(snap, BIT_AP_IDLE)

ap_ready(snap) == Bit(snap, BIT_AP_READY)

auto_restart(snap) == Bit(snap, BIT_AUTO_RESTART)

ALL_ONES == 0 - 1

\* the status of a snapshot: a read of all-ones is a layout the interpreter
\* does not recognize; else done, idle, ready decide in this order
decodeStatus(snap) ==
    IF snap = ALL_ONES THEN "UNSUPPORTED"
    ELSE IF ap_done(snap) = 1 THEN "DONE"
    ELSE IF ap_idle(snap) = 1 THEN "IDLE"
    ELSE IF ap_ready(snap) = 1 THEN "READY"
    ELSE "RUNNING"

\* the write that sets ap_start and keeps auto_restart: refused unless the
\* status is READY or IDLE, and refused for a block that is not idle and has
\* auto_restart unset
buildStartWrite(snap) ==
    IF decodeStatus(snap) \notin {"READY", "IDLE"}
       \/ (ap_idle(snap) = 0 /\ auto_restart(snap) = 0)
    THEN [ok |-> FALSE, err |-> "InvalidStateTransition", value |-> <<>>]
    ELSE [ok |-> TRUE, err |-> "none",
          value |-> <<Pow2(BIT_AP_START)
                      + auto_restart(snap) * Pow2(BIT_AUTO_RESTART)>>]

CuFields ==
    [ap_start : {0, 1}, ap_done : {0, 1}, ap_idle : {0, 1},
     ap_ready : {0, 1}, auto_restart : {0, 1}, reserved : {0, 1}]

NoWrite == [ok |-> FALSE, err |-> "none", value |-> <<>>]

CuStates ==
    {[fields |-> f, snap |-> 0, status |-> "none", wr |-> NoWrite,
      pc |-> "read"] : f \in CuFields}

CuIdle ==
    [fields |-> [ap_start |-> 0, ap_done |-> 0, ap_idle |-> 1,
                 ap_ready |-> 0, auto_restart |-> 0, reserved |-> 0],
     snap |-> 0, status |-> "none", wr |-> NoWrite, pc |-> "idle"]

\* xclRead(m_handle, XCL_ADDR_KERNEL_CTRL, base, &statusBuf, 4)
CuRead ==
    /\ cu.pc = "read"
    /\ cu' = [cu EXCEPT !.snap = RegisterSnapshot(cu.fields),
                !.pc = "decode"]
    /\ UNCHANGED <<ring, life, dma, ddst, mem, tel, usage, race, own>>

\* the status of the snapshot is decoded
CuDecode ==
    /\ cu.pc = "decode"
    /\ cu' = [cu EXCEPT !.status = decodeStatus(cu.snap), !.pc = "decoded"]
    /\ UNCHANGED <<ring, life, dma, ddst, mem, tel, usage, race, own>>

\* a start-write is asked for
CuBuildStart ==
    /\ cu.pc = "decoded"
    /\ cu' = [cu EXCEPT !.wr = buildStartWrite(cu.snap), !.pc = "built"]
    /\ UNCHANGED <<ring, life, dma, ddst, mem, tel, usage, race, own>>

NextCu ==
    \/ CuRead
    \/ CuDecode
    \/ CuBuildStart

(***************************************************************************)
(* device::memread and device::memwrite.  mem.isARE: m_devinfo.mName holds *)
(* "-xare"; mem.ddr: m_devinfo.mDDRSize; mem.start, mem.size: aStartAddr   *)
(* and aSize; mem.out: the warnings printed; mem.req: the call made on     *)
(* memaccess; mem.dev: the device addresses the transfer covers.           *)
(***************************************************************************)
MaxAddr == 6         \* start addresses and sizes 0..MaxAddr

\* m_devinfo.mDDRSize of the modelled device, in bytes
DdrSizes == {4}

\* memaccess::read / memaccess::write: the device addresses transferred are
\* those of the request that lie within device memory
memaccess(fn, ddr, start, size, res) ==
    [dev |-> {a \in start..(start + size - 1) : a < ddr}, ret |-> res]

AreWarnings(kind, ddr, aStartAddr, aSize) ==
    (IF aStartAddr > ddr THEN <<"Start address is over ARE">> ELSE <<>>)
    \o (IF aSize > ddr \/ aStartAddr + aSize > ddr
        THEN <<kind \o " size is over ARE">> ELSE <<>>)

\* device::memread with the start-plus-size test left out
memreadMutNoSizeCheck(isARE, ddr, aStartAddr, aSize, res) ==
    LET acc == memaccess("read", ddr, aStartAddr, aSize, res)
    IN  [out |-> IF isARE /\ aStartAddr > ddr
                 THEN <<"Start address is over ARE">> ELSE <<>>,
         req |-> [fn |-> "read", start |-> aStartAddr, size |-> aSize],
         dev |-> acc.dev, ret |-> acc.ret]

\* device::memread: [out, req, dev, ret]
memread(isARE, ddr, aStartAddr, aSize, res) ==
    LET acc == memaccess("read", ddr, aStartAddr, aSize, res)
    IN  [out |-> IF isARE THEN AreWarnings("Read", ddr, aStartAddr, aSize)
                 ELSE <<>>,
         req |-> [fn |-> "read", start |-> aStartAddr, size |-> aSize],
         dev |-> acc.dev, ret |-> acc.ret]

\* device::memwrite (both overloads): [out, req, dev, ret]
memwrite(isARE, ddr, aStartAddr, aSize, res) ==
    LET acc == memaccess("write", ddr, aStartAddr, aSize, res)
    IN  [out |-> IF isARE THEN AreWarnings("Write", ddr, aStartAddr, aSize)
                 ELSE <<>>,
         req |-> [fn |-> "write", start |-> aStartAddr, size |-> aSize],
         dev |-> acc.dev, ret |-> acc.ret]

NoReq == [fn |-> "none", start |-> 0, size |-> 0]

MemStates ==
    {[isARE |-> are, ddr |-> d, start |-> a, size |-> n, pc |-> "start",
      op |-> "none", out |-> <<>>, req |-> NoReq, dev |-> {}, ret |-> 0] :
        are \in BOOLEAN, d \in DdrSizes, a \in 0..MaxAddr, n \in 0..MaxAddr}

MemIdle ==
    [isARE |-> FALSE, ddr |-> 0, start |-> 0, size |-> 0, pc |-> "idle",
     op |-> "none", out |-> <<>>, req |-> NoReq, dev |-> {}, ret |-> 0]

MemRead ==
    /\ mem.pc = "start"
    /\ \E res \in XferResults :
          LET o == memread(mem.isARE, mem.ddr, mem.start, mem.size, res)
          IN  mem' = [mem EXCEPT !.pc = "done", !.op = "read",
                        !.out = o.out, !.req = o.req, !.dev = o.dev,
                        !.ret = o.ret]
    /\ UNCHANGED <<ring, life, dma, ddst, cu, tel, usage, race, own>>

MemWrite ==
    /\ mem.pc = "start"
    /\ \E res \in XferResults :
          LET o == memwrite(mem.isARE, mem.ddr, mem.start, mem.size, res)
          IN  mem' = [mem EXCEPT !.pc = "done", !.op = "write",
                        !.out = o.out, !.req = o.req, !.dev = o.dev,
                        !.ret = o.ret]
    /\ UNCHANGED <<ring, life, dma, ddst, cu, tel, usage, race, own>>

NextMem ==
    \/ MemRead
    \/ MemWrite

(***************************************************************************)
(* The compute-unit telemetry of device::readSensors: getComputeUnits and  *)
(* parseComputeUnits.  tel.cuIndex is the function-local `static int       *)
(* cuIndex`, one per process; tel.added are the records the last           *)
(* collection added under board.compute_unit.cu.                           *)
(***************************************************************************)
MaxCus == 2          \* entries of an ip_layout
MaxDevs == 2         \* device objects of the process
MaxRuns == 3         \* telemetry collections of the process

\* m_ip_data[i - 1] of the layout of device d
IpData(d, i) == [m_name |-> <<d, i>>, m_base_address |-> i * Pow2(16)]

\* device::getComputeUnits on what sysfs_get("ip_layout") returns
getComputeUnits(errmsg, bufEmpty, m_count, m_ip_data) ==
    IF errmsg THEN [ret |-> 0 - EINVAL, computeUnits |-> <<>>]
    ELSE IF bufEmpty THEN [ret |-> 0, computeUnits |-> <<>>]
    ELSE IF m_count < 0 THEN [ret |-> 0 - EINVAL, computeUnits |-> <<>>]
    ELSE [ret |-> 0, computeUnits |-> SubSeq(m_ip_data, 1, m_count)]

\* device::parseComputeUnits: the records added, and cuIndex after the loop;
\* statusBuf is the word xclRead stored (or left as it was)
parseComputeUnits(computeUnits, cuIndex, statusBuf) ==
    [ret |-> 0,
     added |-> [i \in 1..Len(computeUnits) |->
                  [count |-> cuIndex + i - 1,
                   name |-> computeUnits[i].m_name,
                   base_address |-> computeUnits[i].m_base_address,
                   status |-> statusBuf]],
     cuIndex |-> cuIndex + Len(computeUnits)]

\* ap_start set, ap_idle set
StatusWords == {Pow2(BIT_AP_START), Pow2(BIT_AP_IDLE)}

TelIdle ==
    [cuIndex |-> 0, runs |-> 0, dev |-> 0, warned |-> FALSE, added |-> <<>>,
     pc |-> "idle"]

TelStart == [TelIdle EXCEPT !.pc = "ready"]

\* lines 899-904 of readSensors on device d
TelCollect ==
    \E d \in 1..MaxDevs, e \in BOOLEAN, be \in BOOLEAN,
       n \in (0 - 1)..MaxCus, sb \in StatusWords :
        LET g == getComputeUnits(e, be, n, [i \in 1..MaxCus |-> IpData(d, i)])
            q == parseComputeUnits(g.computeUnits, tel.cuIndex, sb)
        IN  /\ tel.pc # "idle"
            /\ tel.runs < MaxRuns
            /\ tel' = [cuIndex |-> q.cuIndex, runs |-> tel.runs + 1,
                       dev |-> d, warned |-> g.ret < 0, added |-> q.added,
                       pc |-> "collected"]
            /\ UNCHANGED <<ring, life, dma, ddst, cu, mem, usage, race, own>>

NextTel == TelCollect

(***************************************************************************)
(* device::m_mem_usage_stringize_dynamics and device::getMemTopology, and  *)
(* the stream report on the same descriptor.  usage.errmsg, usage.bufEmpty, *)
(* usage.m_count, usage.banks: what sysfs_get("mem_topology") returns;     *)
(* usage.mem, usage.stream, usage.tree: what the three functions left.     *)
(***************************************************************************)
MaxEntries == 2      \* entries of m_mem_data in the buffer

\* the enumerators of MEM_TYPE
MEM_TYPE ==
    {"MEM_DDR3", "MEM_DDR4", "MEM_DRAM", "MEM_STREAMING",
     "MEM_PREALLOCATED_GLOB", "MEM_ARE", "MEM_HBM", "MEM_BRAM", "MEM_URAM"}

\* the table of lines 663-669: enumerator |-> its text
my_map == [t \in MEM_TYPE |-> <<t>>]

\* a value of the m_type byte that is no enumerator
NoEnumerator == "m_type 9"

\* what a build makes of the undefined behaviour of the reports: lookup,
\* the dereference of my_map.end(); ovf and oob as in UbOutcomes
UsageUb ==
    [lookup : {"fault", "garbage"}, ovf : {"wrap"},
     oob : {"fault", "garbage"}]

\* lines 670-671: my_map.find(m_type), then search->second without a test
\* against my_map.end()
TypeName(m_type, ub) ==
    IF m_type \in DOMAIN my_map
    THEN [exc |-> "none", str |-> my_map[m_type]]
    ELSE IF ub.lookup = "fault"
    THEN [exc |-> "SIGSEGV", str |-> <<>>]
    ELSE [exc |-> "none", str |-> <<"bytes past the map">>]

\* the row of bank i with the type text found
TypedRow(i, name, tempOk) ==
    [idx |-> i, exc |-> name.exc, type |-> name.str,
     temp |-> IF tempOk THEN "C" ELSE "Not Supp"]

\* lines 655-689: the row of a bank that is not streaming
MemRow(i, bank, tempOk, ub) ==
    IF bank.m_used = 0
    THEN [idx |-> i, exc |-> "none", type |-> <<"**UNUSED**">>,
          temp |-> IF tempOk THEN "C" ELSE "Not Supp"]
    ELSE TypedRow(i, TypeName(bank.m_type, ub), tempOk)

RECURSIVE MemRows(_, _, _, _, _)
\* a row, and the rows after it unless the process stopped
MemRowThenRest(row, i, numDDR, banks, tempOk, ub) ==
    IF row.exc # "none" THEN <<row>>
    ELSE <<row>> \o MemRows(i + 1, numDDR, banks, tempOk, ub)

\* the loop of lines 654-690 from bank i (0-based) on, numDDR an unsigned
MemRows(i, numDDR, banks, tempOk, ub) ==
    IF ~ULess(i, numDDR) THEN <<>>
    \* m_mem_data[i] lies past the entries the buffer holds
    ELSE IF i >= Len(banks)
    THEN <<[idx |-> i, exc |-> IF ub.oob = "fault" THEN "SIGSEGV" ELSE "none",
            type |-> <<"past the buffer">>, temp |-> "Not Supp"]>>
    ELSE IF banks[i + 1].m_type = "MEM_STREAMING"
    THEN MemRows(i + 1, numDDR, banks, tempOk, ub)
    ELSE MemRowThenRest(MemRow(i, banks[i + 1], tempOk, ub),
                        i, numDDR, banks, tempOk, ub)

\* lines 640-652 and 692-710 for a count numDDR and the rows of the loop
MemLines(numDDR, rows) ==
    IF rows # <<>> /\ rows[Len(rows)].exc # "none"
    THEN [ret |-> rows[Len(rows)].exc, head |-> "table", rows |-> rows]
    \* the test numDDR < 0 is on an unsigned and never holds
    ELSE [ret |-> "lines",
          head |-> IF numDDR = 0 THEN "none found" ELSE "table",
          rows |-> rows]

m_mem_usage_stringize_dynamics(r) ==
    IF r.errmsg
    THEN [ret |-> "lines", head |-> "errmsg", rows |-> <<>>]
    ELSE MemLines(IF r.bufEmpty THEN 0 ELSE r.m_count,
                  MemRows(0, IF r.bufEmpty THEN 0 ELSE r.m_count,
                          r.banks, r.tempOk, r.ub))

RECURSIVE MemTree(_, _, _, _)
\* a record added under board.memory.mem, and those after it
MemTreeThenRest(child, i, count, banks, ub) ==
    IF child.exc # "none" THEN <<child>>
    ELSE <<child>> \o MemTree(i + 1, count, banks, ub)

\* the loop of lines 604-612 from bank i (0-based) on, count the unsigned
\* (unsigned)map->m_count
MemTree(i, count, banks, ub) ==
    IF ~ULess(i, count) THEN <<>>
    ELSE IF i >= Len(banks)
    THEN <<[index |-> i, exc |-> IF ub.oob = "fault" THEN "SIGSEGV"
                                  ELSE "none",
            type |-> "past the buffer", used |-> 0]>>
    ELSE MemTreeThenRest([index |-> i, exc |-> "none",
                          type |-> banks[i + 1].m_type,
                          used |-> banks[i + 1].m_used],
                         i, count, banks, ub)

\* device::getMemTopology: the records added; errmsg is not looked at
getMemTopology(r) ==
    IF r.bufEmpty THEN <<>>
    ELSE MemTree(0, r.m_count, r.banks, r.ub)

UsageBank(t, u) == [m_type |-> t, m_used |-> u, tagW |-> FALSE]

UsageBanks ==
    {UsageBank(t, u) :
        t \in {"MEM_DDR4", "MEM_HBM", "MEM_STREAMING", NoEnumerator},
        u \in {0, 1}}

UsageTopos == UNION {[1..n -> UsageBanks] : n \in 0..MaxEntries}

NoUsageUb == [lookup |-> "fault", ovf |-> "wrap", oob |-> "fault"]

UsageStates ==
    {[errmsg |-> e, bufEmpty |-> be,
      m_count |-> IF neg THEN 0 - 1 ELSE Len(t), banks |-> t,
      tempOk |-> tk, ub |-> u, done |-> {}, mem |-> NoReport,
      stream |-> NoReport, tree |-> <<>>] :
        e \in BOOLEAN, be \in BOOLEAN, tk \in BOOLEAN, u \in UsageUb,
        t \in UsageTopos, neg \in BOOLEAN}

UsageIdle ==
    [errmsg |-> FALSE, bufEmpty |-> TRUE, m_count |-> 0, banks |-> <<>>,
     tempOk |-> FALSE, ub |-> NoUsageUb, done |-> {"mem", "stream", "tree"},
     mem |-> NoReport, stream |-> NoReport, tree |-> <<>>]

\* the memory-usage report is made
UsageMemReport ==
    /\ "mem" \notin usage.done
    /\ usage' = [usage EXCEPT
                   !.mem = m_mem_usage_stringize_dynamics(usage),
                   !.done = usage.done \cup {"mem"}]
    /\ UNCHANGED <<ring, life, dma, ddst, cu, mem, tel, race, own>>

\* the stream report is made of the same descriptor; the stat of a
\* streaming bank is not readable
UsageStreamReport ==
    /\ "stream" \notin usage.done
    /\ usage' = [usage EXCEPT
                   !.stream = m_stream_usage_stringize_dynamics(
                                 [errmsg |-> usage.errmsg,
                                  bufEmpty |-> usage.bufEmpty,
                                  m_count |-> usage.m_count,
                                  banks |-> usage.banks,
                                  statErr |-> TRUE, attrs |-> NoAttrs,
                                  ub |-> usage.ub]),
                   !.done = usage.done \cup {"stream"}]
    /\ UNCHANGED <<ring, life, dma, ddst, cu, mem, tel, race, own>>

\* the telemetry collects the memory topology
UsageTelemetry ==
    /\ "tree" \notin usage.done
    /\ usage' = [usage EXCEPT
                   !.tree = getMemTopology(usage),
                   !.done = usage.done \cup {"tree"}]
    /\ UNCHANGED <<ring, life, dma, ddst, cu, mem, tel, race, own>>

NextUsage ==
    \/ UsageMemReport
    \/ UsageStreamReport
    \/ UsageTelemetry

(***************************************************************************)
(* Two runs of device::dmatest on one device, each a sequence of device    *)
(* transfers; nothing in dmatest orders the transfers of one run against   *)
(* those of the other.  race.run[p] is the position of run p (as dma is    *)
(* of a single run, its log cut to the last transfer); race.by[b] is the   *)
(* run whose pattern bank b's test range holds; race.last is the transfer  *)
(* issued last.                                                            *)
(***************************************************************************)
Runs == {1, 2}

NoStep == [run |-> 0, op |-> "none", bank |-> 0]

\* the topologies with a bank the test transfers to
RaceTopos ==
    {t \in SeqsUpTo(MemKinds, MaxBanks) :
        \E k \in 1..Len(t) :
            t[k].m_type # "MEM_STREAMING" /\ t[k].m_used # 0}

RaceStates ==
    {[run |-> [p \in Runs |->
                 [errmsg |-> FALSE, bufEmpty |-> FALSE, m_count |-> Len(t),
                  banks |-> t, isARE |-> FALSE, pc |-> "start", i |-> 0,
                  sz |-> FirstSz, result |-> 0, ret |-> 0, log |-> <<>>]],
      by |-> [b \in 0..(MaxBanks - 1) |-> 0],
      last |-> NoStep] : t \in RaceTopos}

RaceIdle ==
    [run |-> [p \in Runs |-> DmaIdle],
     by |-> [b \in 0..(MaxBanks - 1) |-> 0],
     last |-> NoStep]

\* run p with its log emptied, before its next transfer
Cut(p) == [race.run[p] EXCEPT !.log = <<>>]

\* run p enters dmatest
RaceEnter(p) ==
    /\ race.run[p].pc = "start"
    /\ race' = [race EXCEPT
                  !.run[p] = dmatestEntry(race.run[p]),
                  !.last = [run |-> p, op |-> "enter", bank |-> 0]]
    /\ UNCHANGED <<ring, life, dma, ddst, cu, mem, tel, usage, own>>

\* run p writes the pattern to the test range of its bank
RaceWrite(p) ==
    /\ race.run[p].pc = "write"
    /\ \E res \in XferResults :
          race' = [race EXCEPT
                     !.run[p] = memwriteStep(Cut(p), res),
                     !.by[race.run[p].i] =
                         IF res < 0 THEN race.by[race.run[p].i] ELSE p,
                     !.last = [run |-> p, op |-> "write",
                               bank |-> race.run[p].i]]
    /\ UNCHANGED <<ring, life, dma, ddst, cu, mem, tel, usage, own>>

\* run p reads the test range of its bank back and compares
RaceReadCompare(p) ==
    /\ race.run[p].pc = "read"
    /\ \E res \in XferResults :
          race' = [race EXCEPT
                     !.run[p] = memreadStep(Cut(p), res),
                     !.last = [run |-> p, op |-> "read",
                               bank |-> race.run[p].i]]
    /\ UNCHANGED <<ring, life, dma, ddst, cu, mem, tel, usage, own>>

\* run p runs the bulk test of its bank
RaceBulk(p) ==
    /\ race.run[p].pc = "bulk"
    /\ \E res \in XferResults :
          race' = [race EXCEPT
                     !.run[p] = runnerStep(Cut(p), res),
                     !.last = [run |-> p, op |-> "bulk",
                               bank |-> race.run[p].i]]
    /\ UNCHANGED <<ring, life, dma, ddst, cu, mem, tel, usage, own>>

NextRace ==
    \E p \in Runs :
        \/ RaceEnter(p)
        \/ RaceWrite(p)
        \/ RaceReadCompare(p)
        \/ RaceBulk(p)

(***************************************************************************)
(* The device objects of a process: the constructor, the move constructor  *)
(* and the destructor.  own.objs[o] is object o (st: "none" before its     *)
(* construction, "live", "gone" after its destruction); own.opens counts   *)
(* the handles xclOpen handed out; own.closes[h] counts the xclClose(h)    *)
(* calls; own.held are the handles of the objects constructed.             *)
(***************************************************************************)
MaxObjs == 3         \* device objects of the process

Objs == 1..MaxObjs

NoObj == [st |-> "none", m_idx |-> 0, m_handle |-> 0]

\* device::device(device&& rhs): m_idx and m_handle are copied, rhs keeps
\* its m_handle
move(rhs) ==
    [self |-> [st |-> "live", m_idx |-> rhs.m_idx, m_handle |-> rhs.m_handle],
     rhs |-> rhs]

\* the xclClose calls among `calls`, added to the counts
Closed(closes, calls) ==
    [h \in DOMAIN closes |->
        closes[h] + Cardinality({k \in 1..Len(calls) :
                                    calls[k].fn = "xclClose"
                                    /\ calls[k].h = h})]

OwnIdle ==
    [objs |-> [o \in Objs |-> NoObj], opens |-> 0,
     closes |-> [h \in 1..MaxOpens |-> 0], held |-> {}, pc |-> "idle"]

OwnStart == [OwnIdle EXCEPT !.pc = "run"]

\* object o is constructed for device index 0
OwnConstruct(o) ==
    \E openOk \in BOOLEAN, infoRes \in ApiResults, errRes \in ApiResults :
        LET opened == IF openOk /\ own.opens < MaxOpens
                      THEN own.opens + 1 ELSE 0
            d == device(0, opened, infoRes, errRes)
        IN  /\ own.pc = "run"
            /\ own.objs[o].st = "none"
            /\ own' = [own EXCEPT
                         !.objs[o] = IF d.alive
                                     THEN [st |-> "live", m_idx |-> 0,
                                           m_handle |-> d.m_handle]
                                     ELSE NoObj,
                         !.opens = IF opened # 0 THEN opened ELSE own.opens,
                         !.held = IF d.alive THEN own.held \cup {d.m_handle}
                                  ELSE own.held]
            /\ UNCHANGED <<ring, life, dma, ddst, cu, mem, tel, usage, race>>

\* object o is move-constructed from the live object r
OwnMove(r, o) ==
    /\ own.pc = "run"
    /\ own.objs[r].st = "live"
    /\ own.objs[o].st = "none"
    /\ own' = [own EXCEPT !.objs[o] = move(own.objs[r]).self,
                          !.objs[r] = move(own.objs[r]).rhs]
    /\ UNCHANGED <<ring, life, dma, ddst, cu, mem, tel, usage, race>>

\* object o is destroyed
OwnDestroy(o) ==
    /\ own.pc = "run"
    /\ own.objs[o].st = "live"
    /\ own' = [own EXCEPT
                 !.objs[o].st = "gone",
                 !.closes = Closed(own.closes,
                                   destroy(own.objs[o].m_handle).calls)]
    /\ UNCHANGED <<ring, life, dma, ddst, cu, mem, tel, usage, race>>

NextOwn ==
    \/ \E o \in Objs : OwnConstruct(o)
    \/ \E r \in Objs, o \in Objs : OwnMove(r, o)
    \/ \E o \in Objs : OwnDestroy(o)


(***************************************************************************)
(* The specifications, one per part of the program.                        *)
(***************************************************************************)
InitRing ==
    /\ ring \in RingStates
    /\ life = LifeIdle
    /\ dma = DmaIdle
    /\ ddst = DdIdle
    /\ cu = CuIdle
    /\ mem = MemIdle
    /\ tel = TelIdle
    /\ usage = UsageIdle
    /\ race = RaceIdle
    /\ own = OwnIdle

SpecRing == InitRing /\ [][NextRing]_vars

InitLife ==
    /\ ring = RingIdle
    /\ life = LifeStart
    /\ dma = DmaIdle
    /\ ddst = DdIdle
    /\ cu = CuIdle
    /\ mem = MemIdle
    /\ tel = TelIdle
    /\ usage = UsageIdle
    /\ race = RaceIdle
    /\ own = OwnIdle

SpecLife == InitLife /\ [][NextLife]_vars

InitDma ==
    /\ ring = RingIdle
    /\ life = LifeIdle
    /\ dma \in DmaStates
    /\ ddst = DdIdle
    /\ cu = CuIdle
    /\ mem = MemIdle
    /\ tel = TelIdle
    /\ usage = UsageIdle
    /\ race = RaceIdle
    /\ own = OwnIdle

SpecDma == InitDma /\ [][NextDma]_vars

InitDd ==
    /\ ring = RingIdle
    /\ life = LifeIdle
    /\ dma = DmaIdle
    /\ ddst \in DdStates
    /\ cu = CuIdle
    /\ mem = MemIdle
    /\ tel = TelIdle
    /\ usage = UsageIdle
    /\ race = RaceIdle
    /\ own = OwnIdle

SpecDd == InitDd /\ [][NextDd]_vars

InitCu ==
    /\ ring = RingIdle
    /\ life = LifeIdle
    /\ dma = DmaIdle
    /\ ddst = DdIdle
    /\ cu \in CuStates
    /\ mem = MemIdle
    /\ tel = TelIdle
    /\ usage = UsageIdle
    /\ race = RaceIdle
    /\ own = OwnIdle

SpecCu == InitCu /\ [][NextCu]_vars

InitMem ==
    /\ ring = RingIdle
    /\ life = LifeIdle
    /\ dma = DmaIdle
    /\ ddst = DdIdle
    /\ cu = CuIdle
    /\ mem \in MemStates
    /\ tel = TelIdle
    /\ usage = UsageIdle
    /\ race = RaceIdle
    /\ own = OwnIdle

SpecMem == InitMem /\ [][NextMem]_vars

InitTel ==
    /\ ring = RingIdle
    /\ life = LifeIdle
    /\ dma = DmaIdle
    /\ ddst = DdIdle
    /\ cu = CuIdle
    /\ mem = MemIdle
    /\ tel = TelStart
    /\ usage = UsageIdle
    /\ race = RaceIdle
    /\ own = OwnIdle

SpecTel == InitTel /\ [][NextTel]_vars

InitUsage ==
    /\ ring = RingIdle
    /\ life = LifeIdle
    /\ dma = DmaIdle
    /\ ddst = DdIdle
    /\ cu = CuIdle
    /\ mem = MemIdle
    /\ tel = TelIdle
    /\ usage \in UsageStates
    /\ race = RaceIdle
    /\ own = OwnIdle

SpecUsage == InitUsage /\ [][NextUsage]_vars

InitRace ==
    /\ ring = RingIdle
    /\ life = LifeIdle
    /\ dma = DmaIdle
    /\ ddst = DdIdle
    /\ cu = CuIdle
    /\ mem = MemIdle
    /\ tel = TelIdle
    /\ usage = UsageIdle
    /\ race \in RaceStates
    /\ own = OwnIdle

SpecRace == InitRace /\ [][NextRace]_vars

InitOwn ==
    /\ ring = RingIdle
    /\ life = LifeIdle
    /\ dma = DmaIdle
    /\ ddst = DdIdle
    /\ cu = CuIdle
    /\ mem = MemIdle
    /\ tel = TelIdle
    /\ usage = UsageIdle
    /\ race = RaceIdle
    /\ own = OwnStart

SpecOwn == InitOwn /\ [][NextOwn]_vars

(***************************************************************************)
(* The properties.                                                         *)
(***************************************************************************)
Reported == ring.phase \in {"reported", "rereported"}

\* the index pair and ring size the report of a streaming bank is made from
ProducerOf(bank) ==
    ring.attrs[IF bank.tagW THEN "descq_pidx" ELSE "c2h_wrb_pidx"]
ConsumerOf(bank) ==
    ring.attrs[IF bank.tagW THEN "descq_cidx" ELSE "descq_cidx_wrb_pend"]
InInt(v) == INT_MIN <= v /\ v <= INT_MAX

StreamIdx ==
    {i \in 1..Len(ring.banks) : ring.banks[i].m_type = "MEM_STREAMING"}

RowOf(report, i) ==
    {report.rows[k] : k \in {j \in 1..Len(report.rows) :
                                report.rows[j].idx = i - 1}}

\* C1: whenever a report is made of an active stream whose producer index
\* equals its consumer index (host-to-card: descq_pidx/descq_cidx,
\* card-to-host: c2h_wrb_pidx/descq_cidx_wrb_pend), the report is produced
\* and the stream's pending byte count in it is 0, for every power-of-two
\* ring size.
C1_EqualIndicesPendingZero ==
    (Reported /\ ~ring.errmsg /\ ~ring.bufEmpty /\ ~ring.statErr
        /\ DOMAIN ring.attrs = StatKeys)
    => \A i \in StreamIdx :
          (/\ ProducerOf(ring.banks[i]) = ConsumerOf(ring.banks[i])
           /\ InInt(ProducerOf(ring.banks[i]))
           /\ IsPow2(ring.attrs["descq_rngsz"]))
          => /\ ring.out.ret = "lines"
             /\ RowOf(ring.out, i) # {}
             /\ \A row \in RowOf(ring.out, i) :
                   row.status = "Active" /\ row.pending = <<"0">>

C1_Witness ==
    /\ Reported
    /\ DOMAIN ring.attrs = StatKeys
    /\ \E i \in StreamIdx :
          /\ ProducerOf(ring.banks[i]) = ConsumerOf(ring.banks[i])
          /\ ProducerOf(ring.banks[i]) = MaxIdx
          /\ ~ring.banks[i].tagW
          /\ ring.attrs["descq_rngsz"] = Pow2(MaxRingLog)
          /\ \E row \in RowOf(ring.out, i) : row.pending = <<"0">>

\* C2: a report made after the producer and the consumer index (or only one
\* of them) advanced by the ring size shows the same pending byte count as
\* the report before, for every power-of-two ring size and all indices the
\* report can be computed from.
C2_WrapInvariant ==
    (/\ ring.phase = "rereported"
     /\ DOMAIN ring.attrs = StatKeys
     /\ IsPow2(ring.attrs["descq_rngsz"])
     /\ ring.prev.ret = "lines"
     /\ ring.out.ret = "lines")
    => ring.out.rows = ring.prev.rows

C2_Witness ==
    /\ ring.phase = "rereported"
    /\ ring.out.ret = "lines"
    /\ DOMAIN ring.attrs = StatKeys
    /\ \E i \in StreamIdx :
          /\ ring.banks[i].tagW
          /\ ProducerOf(ring.banks[i]) = 1 + Pow2(MaxRingLog)
          /\ ConsumerOf(ring.banks[i]) = MaxIdx
          /\ ring.attrs["descq_rngsz"] = Pow2(MaxRingLog)
          /\ \E row \in RowOf(ring.out, i) :
                row.pending = to_string((Pow2(MaxRingLog) + 1 - MaxIdx) * 4096)
          /\ ring.prev.rows = ring.out.rows

CallsOf(fns) ==
    {k \in 1..Len(life.calls) : life.calls[k].fn \in fns}

ValidTag(head) == head = Tag0 \/ head = Tag2

\* C3: program() on a readable bitstream and region 0 goes on to lock the
\* device when the first 8 bytes are "xclbin2" NUL or "xclbin0" NUL, and for
\* every other 8-byte prefix returns -EINVAL without the region message; a
\* bitstream with another 8-byte prefix never causes a lock or load call.
C3_MagicHeaderCheck ==
    (life.op = "program" /\ life.args.fileOpen /\ Len(life.args.head) = 8)
    => /\ (~ValidTag(life.args.head))
            => /\ CallsOf({"xclLockDevice", "xclLoadXclBin"}) = {}
               /\ life.locked = FALSE
               /\ life.ret = 0 - EINVAL
       /\ (~ValidTag(life.args.head) /\ life.args.region = 0)
            => /\ life.out = <<>>
               /\ life.calls = <<>>
       /\ (ValidTag(life.args.head) /\ life.args.region = 0)
            => /\ life.calls # <<>>
               /\ life.calls[1].fn = "xclLockDevice"
               /\ life.ret = life.calls[Len(life.calls)
                                        - (IF Len(life.calls) = 1 THEN 0 ELSE 1)].res

C3_Witness ==
    /\ life.op = "program"
    /\ life.args.fileOpen
    /\ life.args.region = 0
    /\ life.args.head = <<"x", "c", "l", "b", "i", "n", "2", "x">>
    /\ life.ret = 0 - EINVAL
    /\ life.calls = <<>>

\* C4: program() called on a readable bitstream with a region other than 0
\* returns -EINVAL with the "not support other than -r 0" message, whatever
\* the bitstream holds, and no call of program() with such a region issues a
\* device call or changes the lock.
C4_RegionRejected ==
    (life.op = "program" /\ life.args.region # 0)
    => /\ life.calls = <<>>
       /\ life.locked = FALSE
       /\ life.exc = "none"
       /\ life.ret # 0
       /\ life.args.fileOpen
            => /\ life.ret = 0 - EINVAL
               /\ life.out = <<"Not support other than -r 0">>

C4_Witness ==
    /\ life.op = "program"
    /\ life.args.region = 1
    /\ life.args.fileOpen
    /\ life.args.head = Tag2
    /\ life.ret = 0 - EINVAL
    /\ life.out = <<"Not support other than -r 0">>
    /\ life.calls = <<>>

\* C5: boot() called with neither the real nor the effective uid being root
\* returns -EACCES, issues neither xclBootFPGA nor xclOpen, and leaves
\* m_handle as it was.
C5_BootNeedsRoot ==
    (life.op = "boot" /\ life.args.uid # 0 /\ life.args.euid # 0)
    => /\ life.ret = 0 - EACCES
       /\ life.calls = <<>>
       /\ life.m_handle = life.before

C5_Witness ==
    /\ life.op = "boot"
    /\ life.args.uid # 0
    /\ life.args.euid # 0
    /\ life.ret = 0 - EACCES
    /\ life.m_handle = 2
    /\ life.before = 2

\* positions of dma.log holding a failed pattern write or read-back compare
FailedChecks ==
    {k \in 1..Len(dma.log) :
        dma.log[k].op \in {"write", "read"} /\ dma.log[k].res < 0}

\* banks the loop of dmatest tests: not streaming, and used
TestedBanks ==
    {b \in 0..(Len(dma.banks) - 1) :
        dma.banks[b + 1].m_type # "MEM_STREAMING" /\ dma.banks[b + 1].m_used # 0}

C7_InvalidRequestNoIo ==
    (/\ ddst.pc = "done"
     /\ \/ ~ddst.args.isValid
        \/ ddst.args.dir = "unset"
        \/ (ddst.opts.ofGiven /\ ~ddst.opts.ifGiven
              /\ ddst.opts.count = NoCount))
    => /\ ddst.ret = 0 - 1
       /\ ddst.io = <<>>

C7_Witness ==
    /\ ddst.pc = "done"
    /\ ddst.opts.ofGiven
    /\ ~ddst.opts.ifGiven
    /\ ddst.opts.count = NoCount
    /\ ddst.args.dir = "deviceToFile"
    /\ ddst.ret = 0 - 1
    /\ ddst.io = <<>>

\* C8: for a file-to-device copy with no count given, the block count the
\* transfer loop starts with is the file length divided by the block size,
\* rounded up.
C8_CountIsCeiling ==
    (/\ ddst.pc = "done"
     /\ ddst.args.isValid
     /\ ddst.args.dir = "fileToDevice"
     /\ ddst.args.count <= 0
     /\ ddst.fileOk)
    => ddst.count = (ddst.fileLen + ddst.args.blockSize - 1)
                        \div ddst.args.blockSize

Decoded == cu.pc \in {"decoded", "built"}

Statuses == {"IDLE", "RUNNING", "DONE", "READY", "UNSUPPORTED"}

ResetKind(region) ==
    IF region = ALL_REGIONS THEN "XCL_RESET_FULL" ELSE "XCL_RESET_KERNEL"

\* C11: in program() a load call is always directly preceded by a successful
\* lock call on the same handle; whenever the lock call succeeded, the load
\* was issued and the last call before the return is the unlock on that
\* handle, for a load that succeeds and for one that fails; no return of
\* program() leaves the device locked.
C11_LockReleasedOnEveryPath ==
    life.op = "program"
    => /\ \A k \in CallsOf({"xclLoadXclBin"}) :
             /\ k > 1
             /\ life.calls[k - 1] = Call("xclLockDevice", life.before, 0)
       /\ (\E k \in CallsOf({"xclLockDevice"}) : life.calls[k].res = 0)
            => /\ CallsOf({"xclLoadXclBin"}) # {}
               /\ life.calls[Len(life.calls)]
                     = Call("xclUnlockDevice", life.before, 0)
               /\ life.ret = life.calls[Len(life.calls) - 1].res
       /\ ~life.locked

C11_Witness ==
    /\ life.op = "program"
    /\ Len(life.calls) = 3
    /\ life.calls[1] = Call("xclLockDevice", life.before, 0)
    /\ life.calls[2] = Call("xclLoadXclBin", life.before, 0 - 1)
    /\ life.calls[3].fn = "xclUnlockDevice"
    /\ life.ret = 0 - 1
    /\ ~life.locked

\* C12: in every call of program() that issues a lock or load call, the
\* file opened, the region is 0 and the first 8 bytes of the file are one of
\* the two accepted tags.
C12_ChecksBeforeLock ==
    (life.op = "program"
        /\ CallsOf({"xclLockDevice", "xclLoadXclBin"}) # {})
    => /\ life.args.fileOpen
       /\ life.args.region = 0
       /\ Len(life.args.head) = 8
       /\ ValidTag(life.args.head)

C12_Witness ==
    /\ life.op = "program"
    /\ life.args.region = 0
    /\ life.args.head = Tag0
    /\ life.calls = <<Call("xclLockDevice", life.before, 0 - 1)>>
    /\ life.ret = 0 - 1

\* C13: after a privileged boot() whose reboot request succeeded and whose
\* reopen failed, the manager holds no handle, and what boot() reports
\* (return value and message) differs from what it reports for every
\* failure of the reboot request itself.
C13_ReopenFailureDistinct ==
    (life.op = "boot"
        /\ \E k \in CallsOf({"xclOpen"}) : life.calls[k].res = 0)
    => /\ life.m_handle = 0
       /\ \A bootRes \in ApiResults \ {0} :
             LET o == boot(life.before, life.m_idx, life.args.uid,
                           life.args.euid, bootRes, 0)
             IN  <<o.ret, o.out>> # <<life.ret, life.out>>

\* C14: reset(region) issues exactly one xclResetDevice on the handle the
\* object holds, of kind XCL_RESET_FULL when region is 0xffffffff and of kind
\* XCL_RESET_KERNEL for every other region (0 included), returns its result,
\* and leaves the object and its handle as they were.
C14_ResetKindAndHandle ==
    life.op = "reset"
    => /\ life.calls = <<CallKind("xclResetDevice", life.before,
                                  ResetKind(life.args.region), life.ret)>>
       /\ life.m_handle = life.before
       /\ life.alive

C14_Witness ==
    /\ life.op = "reset"
    /\ life.args.region = 0
    /\ life.before = 2
    /\ life.m_handle = 2
    /\ life.calls = <<CallKind("xclResetDevice", 2, "XCL_RESET_KERNEL", 0)>>

OpenSteps == <<"xclOpen", "xclGetDeviceInfo2", "xclGetErrorStatus">>

\* C15: the constructor calls xclOpen, xclGetDeviceInfo2 and
\* xclGetErrorStatus in that order, stopping at the first that fails; an
\* object exists afterwards exactly when all three succeeded, and it holds
\* the handle xclOpen returned; otherwise the constructor throws
\* runtime_error and there is no object.
C15_OpenNeedsAllThree ==
    life.op = "open"
    => /\ Len(life.calls) \in 1..3
       /\ \A k \in 1..Len(life.calls) :
             /\ life.calls[k].fn = OpenSteps[k]
             /\ k > 1 => life.calls[k].h = life.calls[1].res
             /\ k < Len(life.calls)
                  => IF k = 1 THEN life.calls[k].res # 0
                     ELSE life.calls[k].res = 0
       /\ life.alive <=> /\ Len(life.calls) = 3
                         /\ life.calls[1].res # 0
                         /\ life.calls[2].res = 0
                         /\ life.calls[3].res = 0
       /\ life.alive => (life.exc = "none"
                            /\ life.m_handle = life.calls[1].res)
       /\ ~life.alive => life.exc = "runtime_error"

C15_Witness ==
    /\ life.op = "open"
    /\ Len(life.calls) = 3
    /\ life.calls[3] = Call("xclGetErrorStatus", life.calls[1].res, 0 - 1)
    /\ ~life.alive
    /\ life.exc = "runtime_error"
    /\ life.out = <<"Unable to obtain AXI error">>

\* C16: the close of an object that holds a handle issues one xclClose on
\* it, and the close of an object that holds no valid handle issues no
\* xclClose.
C16_CloseSafeIdempotent ==
    life.op = "close"
    => /\ life.before # 0
            => life.calls = <<Call("xclClose", life.before, 0)>>
       /\ life.before = 0 => life.calls = <<>>

\* C17: program, boot and reset on an object whose handle is invalid fail
\* and pass the invalid handle to no device API call.
C17_StaleHandleFailsFast ==
    (life.op \in {"program", "boot", "reset"} /\ life.before = 0)
    => /\ life.ret # 0
       /\ \A k \in 1..Len(life.calls) :
             life.calls[k].fn = "xclOpen" \/ life.calls[k].h # 0

\* C20: a constructor that obtained a handle and then throws has closed
\* that handle.
C20_OpenReleasesHandleOnError ==
    (life.op = "open" /\ life.exc # "none" /\ life.calls[1].res # 0)
    => \E k \in 1..Len(life.calls) :
          life.calls[k] = Call("xclClose", life.calls[1].res, 0)

\* what a transfer is, without its result
Shape(x) == [op |-> x.op, bank |-> x.bank, addr |-> x.addr, sz |-> x.sz]

RECURSIVE Shapes(_)
\* the transfers of the bank loop in a log, in order (the latency loops of
\* an ARE device left out)
Shapes(log) ==
    IF log = <<>> THEN <<>>
    ELSE IF Head(log).op = "are" THEN Shapes(Tail(log))
    ELSE <<Shape(Head(log))>> \o Shapes(Tail(log))

RECURSIVE SizeSweep(_, _)
\* bank b from size sz on: write and read-back compare at the bank's base
\* address for each size up to LastSz, then the bank's bulk run
SizeSweep(b, sz) ==
    IF sz > LastSz
    THEN <<[op |-> "bulk", bank |-> b, addr |-> 0, sz |-> 0]>>
    ELSE <<[op |-> "write", bank |-> b, addr |-> m_base_address(b),
            sz |-> sz],
           [op |-> "read", bank |-> b, addr |-> m_base_address(b),
            sz |-> sz]>> \o SizeSweep(b, 2 * sz)

RECURSIVE FullSweep(_)
\* the sweep over the banks b, b + 1, ... of the topology that are not
\* streaming and are used
FullSweep(b) ==
    IF b >= Len(dma.banks) THEN <<>>
    ELSE IF b \in TestedBanks THEN SizeSweep(b, FirstSz) \o FullSweep(b + 1)
    ELSE FullSweep(b + 1)

IsPrefix(a, b) == Len(a) <= Len(b) /\ SubSeq(b, 1, Len(a)) = a

TopologyOk == ~dma.errmsg /\ ~dma.bufEmpty /\ dma.m_count # 0

Returned == dma.pc = "done"

Exceeds == mem.start > mem.ddr \/ mem.start + mem.size > mem.ddr

C21_BootReplacesHandle ==
    /\ (life.op = "boot" /\ life.ret = 0)
          => /\ life.calls = <<Call("xclBootFPGA", life.before, 0),
                               Call("xclOpen", life.m_idx, life.m_handle)>>
             /\ life.m_handle # 0
             /\ life.m_handle # life.before
             /\ life.before # 0 => life.before \in life.replaced
    /\ (life.op = "boot" /\ life.calls # <<>> /\ life.calls[1].res # 0)
          => /\ Len(life.calls) = 1
             /\ life.m_handle = life.before
             /\ life.ret = life.calls[1].res
    /\ \A k \in 1..Len(life.calls) :
          (life.calls[k].fn # "xclOpen"
              /\ life.calls[k].h \in life.replaced)
          => (life.op = "boot" /\ k = 1 /\ life.calls[k].h = life.before)
    /\ life.alive => life.m_handle \notin life.replaced

C21_Witness ==
    /\ life.op = "reset"
    /\ life.replaced = {1}
    /\ life.m_handle = 2
    /\ life.calls[1].h = 2

BankTransfers ==
    {k \in 1..Len(dma.log) : dma.log[k].op \in {"write", "read", "bulk"}}

\* C22: a run of dmatest on a topology that is missing or malformed (read
\* error, empty buffer, bank count zero or negative) returns an error and
\* has issued no write, read or bulk transfer; and no run returns 0 without
\* having tested a bank.
C22_BadTopologyIsError ==
    Returned
    => /\ (dma.errmsg \/ dma.bufEmpty \/ dma.m_count <= 0)
            => (dma.ret < 0 /\ BankTransfers = {})
       /\ dma.ret = 0 => BankTransfers # {}

\* C29: a run of dmatest that returns 0 has tested every used
\* non-streaming bank and none of its writes, read-back compares and bulk
\* runs failed.
C29_ZeroMeansAllPassed ==
    (Returned /\ TopologyOk /\ dma.ret = 0)
    => /\ \A k \in BankTransfers : dma.log[k].res = 0
       /\ Shapes(dma.log) = FullSweep(0)

\* the device writes of a copy, in order
RECURSIVE Writes(_)
Writes(io) ==
    IF io = <<>> THEN <<>>
    ELSE IF Head(io).op = "memwrite" THEN <<Head(io)>> \o Writes(Tail(io))
    ELSE Writes(Tail(io))

RECURSIVE TotalSize(_)
TotalSize(w) == IF w = <<>> THEN 0 ELSE Head(w).size + TotalSize(Tail(w))

FileCopyRan ==
    /\ ddst.pc = "done"
    /\ ddst.args.isValid
    /\ ddst.args.dir = "fileToDevice"
    /\ ddst.fileOk
    /\ ddst.mallocOk

\* C30: a file-to-device copy whose file opens and whose buffer is
\* allocated returns 0 and has written min(count * blockSize, length) bytes
\* in all; the first write is at the seek offset and each next write is at
\* the address where the one before ended; every write but the last is a
\* full block, each write carries the bytes the read before it returned,
\* and the number of writes is count, or the number of reads up to and
\* including the first short one if that is less.
C30_WritesFilePrefix ==
    FileCopyRan
    => LET w == Writes(ddst.io)
           bs == ddst.args.blockSize
       IN  /\ ddst.ret = 0
           /\ TotalSize(w) = Min(ddst.count * bs, ddst.fileLen)
           /\ Len(w) = Min(ddst.count, (ddst.fileLen \div bs) + 1)
           /\ \A k \in 1..Len(w) :
                 /\ w[k].addr = ddst.args.seek + (k - 1) * bs
                 /\ k < Len(w) => w[k].size = bs
           /\ \A k \in 1..Len(ddst.io) :
                 ddst.io[k].op = "memwrite"
                    => /\ k > 1
                       /\ ddst.io[k - 1].op = "read"
                       /\ ddst.io[k - 1].size = ddst.io[k].size

C30_Witness ==
    /\ FileCopyRan
    /\ ddst.args.count = 3
    /\ ddst.args.blockSize = 2
    /\ ddst.fileLen = 3
    /\ ddst.args.seek = 8192
    /\ Writes(ddst.io) = <<Io("memwrite", 8192, 2), Io("memwrite", 8194, 1)>>
    /\ ddst.ret = 0


\* C25: for every power-of-two ring size and all index values, the report
\* is produced and the pending byte count it shows for a stream is the
\* mathematical integer ((producer - consumer) mod ring size) * 4096: not
\* negative, a multiple of 4096 whose quotient is the masked difference,
\* also when producer < consumer and when the product exceeds INT_MAX.
C25_PendingIsMathematical ==
    (/\ Reported /\ ~ring.errmsg /\ ~ring.bufEmpty /\ ~ring.statErr
     /\ ring.m_count >= 0
     /\ DOMAIN ring.attrs = StatKeys
     /\ IsPow2(ring.attrs["descq_rngsz"]))
    => \A i \in StreamIdx :
          LET p == ProducerOf(ring.banks[i])
              c == ConsumerOf(ring.banks[i])
          IN  (InInt(p) /\ InInt(c) /\ ~SubOverflows(p, c))
              => /\ ring.out.ret = "lines"
                 /\ RowOf(ring.out, i) # {}
                 /\ \A row \in RowOf(ring.out, i) :
                       /\ row.pending # <<>>
                       /\ LET shown == stoi(row.pending)
                          IN  /\ shown.exc = "none"
                              /\ shown.v >= 0
                              /\ shown.v % 4096 = 0
                              /\ shown.v \div 4096
                                    = (p - c) % ring.attrs["descq_rngsz"]

\* C23: every telemetry collection numbers the compute units it reports
\* 0..n-1, whatever collections ran before it in the process and whichever
\* device object ran them.
C23_CuIndexPerCollection ==
    tel.pc = "collected"
    => \A k \in 1..Len(tel.added) : tel.added[k].count = k - 1

\* the banks of the descriptor whose type the memory-usage report names
NamedIdx ==
    {i \in 1..Len(usage.banks) :
        usage.banks[i].m_type # "MEM_STREAMING" /\ usage.banks[i].m_used # 0}

UsageRowOf(i) ==
    {usage.mem.rows[k] : k \in {j \in 1..Len(usage.mem.rows) :
                                    usage.mem.rows[j].idx = i - 1}}

\* C24: the memory-usage report of a well-formed descriptor is produced and
\* names the type of every used, non-streaming bank with the text of an
\* enumerator or an explicit unknown variant, for every value of the type.
C24_TypeNameDefined ==
    (/\ "mem" \in usage.done
     /\ ~usage.errmsg /\ ~usage.bufEmpty
     /\ usage.m_count = Len(usage.banks))
    => /\ usage.mem.ret = "lines"
       /\ \A i \in NamedIdx :
             /\ UsageRowOf(i) # {}
             /\ \A row \in UsageRowOf(i) :
                   row.type \in {my_map[t] : t \in MEM_TYPE}
                                 \cup {<<"UNKNOWN">>}

\* C26: for a descriptor with a negative bank count the memory-usage
\* report and the stream report say the topology is invalid and have no
\* row, and the telemetry adds no memory record.
C26_NegativeCountDegrades ==
    (~usage.errmsg /\ ~usage.bufEmpty /\ usage.m_count < 0)
    => /\ "mem" \in usage.done
          => usage.mem = [ret |-> "lines", head |-> "invalid", rows |-> <<>>]
       /\ "stream" \in usage.done
          => usage.stream
               = [ret |-> "lines", head |-> "invalid", rows |-> <<>>]
       /\ "tree" \in usage.done => usage.tree = <<>>

\* C27: also with two runs of dmatest on one device, no write of the
\* validation to a bank's test range begins while another run's write to
\* that bank still awaits its read-back comparison.
C27_OneTransferInFlight ==
    \A p \in Runs :
        (/\ race.last.op = "write"
         /\ race.last.run # p
         /\ race.run[p].pc = "read")
        => race.run[p].i # race.last.bank

\* the live objects that hold handle h
HoldersOf(h) ==
    {o \in Objs : own.objs[o].st = "live" /\ own.objs[o].m_handle = h}

\* C28: whatever objects are constructed, move-constructed and destroyed,
\* the handle of a constructed object is never passed to xclClose twice, and
\* it has been passed to it once when no live object holds it any more.
C28_ClosedExactlyOnce ==
    \A h \in own.held :
        /\ own.closes[h] <= 1
        /\ HoldersOf(h) = {} => own.closes[h] = 1

====
